---- MODULE Spec2Model ----
(***************************************************************************)
(* A model of rest_framework_openapi_gen: the parser that turns an         *)
(* OpenAPI-2.0-shaped document into the typed contract graph               *)
(* (parser.py), and the renderer's serializer-descriptor graph, weights,   *)
(* emission order and endpoint grouping (renderer/__init__.py).            *)
(*                                                                         *)
(* Python strings are TLA+ strings (TLC evaluates Len, \o and SubSeq on    *)
(* them), Python's None / absent key is the empty tuple <<>> and a present *)
(* value v is <<v>>.  An insertion-ordered dict is a sequence of           *)
(* [k |-> key, v |-> value] records with pairwise different keys.          *)
(***************************************************************************)
EXTENDS Integers, Sequences, FiniteSets, TLC

VARIABLES
    doc,                  \* the input document handed to build_openapi_from_repr
    pc,                   \* how far main / render has run
    err,                  \* the exception that ended the run ("" for none)
    failed_in,            \* where the run was when the exception was raised
    spec,                 \* the OpenAPISpec the parser returned
    serializers,          \* render: the dict build_serializers returned
    endpoints,            \* render: the list of Endpoint
    individual_handlers,  \* render: the list of (path, VerbDescriptor)
    weights,              \* render: the pairs eval_weights returned
    emitted,              \* render: the descriptors handed to serializers.py.jinja2
    files,                \* render: the output files written so far, in order
    routes,               \* render: the patterns rendered for urls.py, in order
    call,                 \* a library function called on its own: [fn, args]
    result,               \* what that call returned or raised
    _items,               \* an IdentitySet on its own: its _items dict, id(item) -> item
    history               \* the add / discard calls that IdentitySet has completed

vars == <<doc, pc, err, failed_in, spec, serializers, endpoints, individual_handlers, weights,
          emitted, files, routes, call, result, _items, history>>

set_vars == <<_items, history>>

None == <<>>
Some(x) == <<x>>
IsNone(o) == Len(o) = 0
The(o) == o[1]

Range(s) == {s[i] : i \in 1..Len(s)}

(***************************************************************************)
(* Strings                                                                 *)
(***************************************************************************)
Char(s, i) == SubSeq(s, i, i)
Rest(s) == SubSeq(s, 2, Len(s))

\* str.split(sep) for a one-character separator: "/a".split("/") = ["", "a"]
RECURSIVE SplitFrom(_, _, _)
SplitFrom(s, sep, cur) ==
    IF Len(s) = 0 THEN <<cur>>
    ELSE IF Char(s, 1) = sep THEN <<cur>> \o SplitFrom(Rest(s), sep, "")
    ELSE SplitFrom(Rest(s), sep, cur \o Char(s, 1))

StrSplit(s, sep) == SplitFrom(s, sep, "")

\* sep.join(parts)
RECURSIVE StrJoin(_, _)
StrJoin(sep, parts) ==
    IF Len(parts) = 0 THEN ""
    ELSE IF Len(parts) = 1 THEN parts[1]
    ELSE parts[1] \o sep \o StrJoin(sep, Tail(parts))

\* str.replace(pat, rep) for a two-character pattern, scanning left to right
RECURSIVE StrReplace2(_, _, _)
StrReplace2(s, pat, rep) ==
    IF Len(s) < 2 THEN s
    ELSE IF SubSeq(s, 1, 2) = pat THEN rep \o StrReplace2(SubSeq(s, 3, Len(s)), pat, rep)
    ELSE Char(s, 1) \o StrReplace2(Rest(s), pat, rep)

\* str.replace(c, rep) for a one-character pattern
RECURSIVE StrReplace1(_, _, _)
StrReplace1(s, c, rep) ==
    IF Len(s) = 0 THEN s
    ELSE (IF Char(s, 1) = c THEN rep ELSE Char(s, 1)) \o StrReplace1(Rest(s), c, rep)

LowerLetters == "abcdefghijklmnopqrstuvwxyz"
UpperLetters == "ABCDEFGHIJKLMNOPQRSTUVWXYZ"

LetterIndex(alphabet, c) ==
    IF \E i \in 1..Len(alphabet) : Char(alphabet, i) = c
    THEN CHOOSE i \in 1..Len(alphabet) : Char(alphabet, i) = c
    ELSE 0

IsLetter(c) == LetterIndex(LowerLetters, c) > 0 \/ LetterIndex(UpperLetters, c) > 0
ToUpper(c) == IF LetterIndex(LowerLetters, c) > 0
              THEN Char(UpperLetters, LetterIndex(LowerLetters, c)) ELSE c
ToLower(c) == IF LetterIndex(UpperLetters, c) > 0
              THEN Char(LowerLetters, LetterIndex(UpperLetters, c)) ELSE c

\* str.title(): a letter that follows a non-letter (or starts the string) is
\* upper-cased, every other letter is lower-cased
RECURSIVE TitleFrom(_, _)
TitleFrom(s, prevIsLetter) ==
    IF Len(s) = 0 THEN ""
    ELSE (IF prevIsLetter THEN ToLower(Char(s, 1)) ELSE ToUpper(Char(s, 1)))
         \o TitleFrom(Rest(s), IsLetter(Char(s, 1)))

StrTitle(s) == TitleFrom(s, FALSE)

(***************************************************************************)
(* json_pointer.py                                                         *)
(***************************************************************************)
quote_json_pointer(v) == StrReplace1(StrReplace1(v, "~", "~0"), "/", "~1")

unquote_json_pointer(v) == StrReplace2(StrReplace2(v, "~1", "/"), "~0", "~")

\* JSONPointer(): the empty address
RootPointer == <<>>

\* JSONPointer.__truediv__ / new_sub_context: path + (c,)
Sub(ctx, c) == Append(ctx, c)

\* urllib.parse.unquote decodes %XX escapes; the documents of this model hold no "%"
UrlUnquote(v) == v

RECURSIVE DropEmpty(_)
DropEmpty(parts) ==
    IF Len(parts) = 0 THEN <<>>
    ELSE IF parts[1] = "" THEN DropEmpty(Tail(parts))
    ELSE <<parts[1]>> \o DropEmpty(Tail(parts))

\* JSONPointer.from_string
from_string(v) ==
    LET v1 == IF Len(v) > 0 /\ Char(v, 1) = "#" THEN UrlUnquote(Rest(v)) ELSE v
        cs == DropEmpty(StrSplit(v1, "/"))
    IN  [i \in 1..Len(cs) |-> unquote_json_pointer(cs[i])]

\* JSONPointer.__str__ of an address whose components are strings
JSONPointer_str(path) ==
    IF Len(path) = 0 THEN "/"
    ELSE StrJoin("", [i \in 1..Len(path) |-> "/" \o quote_json_pointer(path[i])])

(***************************************************************************)
(* parser.py: the document (the nested mapping yaml.load returns)          *)
(*                                                                         *)
(*   schema repr    [ref, type, format, properties, items]  each optional  *)
(*   parameter repr [name, in, type, required]       type, required optional *)
(*   response repr  [schema]                         optional              *)
(*   verb repr      [fname, parameters, responses]   fname is the value of *)
(*                  x-appgen-function-name, optional                       *)
(*   doc            [definitions, paths]             ordered mappings      *)
(***************************************************************************)
JSONTypes == {"number", "integer", "string", "boolean", "array", "object"}
HttpVerbs == {"get", "post", "put", "patch", "delete"}
ParameterPlaces == {"path", "query", "formData", "body"}

\* the first error of a sequence of outcomes ("" is success), in evaluation order
RECURSIVE FirstErr(_)
FirstErr(es) ==
    IF Len(es) = 0 THEN ""
    ELSE IF es[1] # "" THEN es[1]
    ELSE FirstErr(Tail(es))

\* JSONType(get_as_str(ctx, schema_repr, "type", default=...)) in build_schema_from_repr:
\* the kind is the declared one, else inferred from properties, else from items
SchemaTypeOf(r) ==
    IF ~IsNone(r.type) THEN r.type
    ELSE IF ~IsNone(r.properties) THEN Some("object")
    ELSE IF ~IsNone(r.items) THEN Some("array")
    ELSE None

\* The exception resolve_schema / build_schema_from_repr raises on a schema repr
RECURSIVE SchemaError(_)
SchemaError(r) ==
    IF ~IsNone(r.ref) THEN ""
    ELSE FirstErr(
        << IF IsNone(SchemaTypeOf(r)) THEN "InvalidSchemaError"
           ELSE IF The(SchemaTypeOf(r)) \notin JSONTypes THEN "ValueError"
           ELSE "" >>
        \o (IF IsNone(r.properties) THEN <<>>
            ELSE [i \in 1..Len(The(r.properties)) |-> SchemaError(The(r.properties)[i].v)])
        \o (IF IsNone(r.items) THEN <<>> ELSE <<SchemaError(The(r.items))>>))

\* resolve_schema and build_schema_from_repr on a repr without error.  cls and name
\* are the factory (Schema, or Definition with its name); pos is the node's position
\* in the document, kept beside the address the code derives
RECURSIVE build_schema_from_repr(_, _, _, _, _)
RECURSIVE resolve_schema(_, _, _)
resolve_schema(ctx, pos, r) ==
    IF ~IsNone(r.ref)
    THEN [cls |-> "SchemaRef", ctx |-> ctx, pos |-> pos, ref |-> from_string(The(r.ref)),
          type_ |-> "", format |-> None, properties |-> None, items |-> None,
          name |-> ""]
    ELSE build_schema_from_repr(ctx, pos, r, "Schema", "")

\* a property k is built at ctx / k, the element type at ctx / "items"
build_schema_from_repr(ctx, pos, r, cls, name) ==
    [cls |-> cls, ctx |-> ctx, pos |-> pos, ref |-> <<>>,
     type_ |-> The(SchemaTypeOf(r)),
     format |-> r.format,
     properties |->
        IF IsNone(r.properties) THEN None
        ELSE Some([i \in 1..Len(The(r.properties)) |->
                LET p == The(r.properties)[i]
                IN  [k |-> p.k,
                     v |-> resolve_schema(Sub(ctx, p.k),
                                          Sub(Sub(pos, "properties"), p.k), p.v)]]),
     items |->
        IF IsNone(r.items) THEN None
        ELSE Some(resolve_schema(Sub(ctx, "items"), Sub(pos, "items"), The(r.items))),
     name |-> name]

build_definition_from_repr(ctx, pos, name, r) ==
    build_schema_from_repr(ctx, pos, r, "Definition", name)

ResponseError(r) == IF IsNone(r.schema) THEN "" ELSE SchemaError(The(r.schema))

build_response_from_repr(ctx, pos, status_code, r) ==
    [ctx |-> ctx, pos |-> pos, status_code |-> status_code,
     schema |-> IF IsNone(r.schema) THEN None
                ELSE Some(resolve_schema(Sub(ctx, "schema"), Sub(pos, "schema"),
                                         The(r.schema)))]

\* ParameterPlace(...) and JSONType(get_as_str(..., "type", default=None)) raise
\* ValueError on a value that is no member of the enum, None included
ParameterError(r) ==
    IF r.in \notin ParameterPlaces THEN "ValueError"
    ELSE IF IsNone(r.type) \/ The(r.type) \notin JSONTypes THEN "ValueError"
    ELSE ""

build_parameter_from_repr(ctx, pos, r) ==
    [ctx |-> ctx, pos |-> pos, name |-> r.name, in_ |-> r.in, type_ |-> The(r.type),
     required |-> IF IsNone(r.required) THEN TRUE ELSE The(r.required)]

VerbError(r) ==
    FirstErr([i \in 1..Len(r.parameters) |-> ParameterError(r.parameters[i])]
             \o [i \in 1..Len(r.responses) |-> ResponseError(r.responses[i].v)])

\* every parameter is built at ctx / "parameters", every response at
\* ctx / "responses" / status_code
build_verb_from_repr(ctx, pos, verb, r) ==
    [ctx |-> ctx, pos |-> pos, verb |-> verb,
     function_name |-> r.fname,
     parameters |-> [i \in 1..Len(r.parameters) |->
                        build_parameter_from_repr(Sub(ctx, "parameters"),
                            Sub(Sub(pos, "parameters"), ToString(i - 1)),
                            r.parameters[i])],
     responses |-> [i \in 1..Len(r.responses) |->
                        LET status_code == r.responses[i].k
                        IN  [k |-> status_code,
                             v |-> build_response_from_repr(
                                     Sub(Sub(ctx, "responses"), status_code),
                                     Sub(Sub(pos, "responses"), status_code),
                                     status_code, r.responses[i].v)]]]

PathError(verbs) ==
    FirstErr([i \in 1..Len(verbs) |->
                IF verbs[i].k \notin HttpVerbs THEN "ValueError"
                ELSE VerbError(verbs[i].v)])

\* The exception build_openapi_from_repr raises on a document ("" when it returns)
ParseError(d) ==
    FirstErr([i \in 1..Len(d.definitions) |-> SchemaError(d.definitions[i].v)]
             \o [i \in 1..Len(d.paths) |-> PathError(d.paths[i].v)])

\* build_openapi_from_repr(JSONPointer(), doc): each Path gets the root address,
\* each Verb the address ctx / "paths" / path
build_openapi_from_repr(ctx, d) ==
    [ctx |-> ctx,
     definitions |-> [i \in 1..Len(d.definitions) |->
                        LET name == d.definitions[i].k
                        IN  [k |-> name,
                             v |-> build_definition_from_repr(
                                     Sub(Sub(ctx, "definitions"), name),
                                     <<"definitions", name>>, name,
                                     d.definitions[i].v)]],
     paths |-> [i \in 1..Len(d.paths) |->
                  LET path == d.paths[i].k
                  IN  [ctx |-> ctx, pos |-> <<"paths", path>>, path |-> path,
                       verbs |-> [j \in 1..Len(d.paths[i].v) |->
                                    LET verb == d.paths[i].v[j].k
                                    IN  [k |-> verb,
                                         v |-> build_verb_from_repr(
                                                 Sub(Sub(ctx, "paths"), path),
                                                 <<"paths", path, verb>>, verb,
                                                 d.paths[i].v[j].v)]]]]]

(***************************************************************************)
(* Insertion-ordered dict and utils.IdentitySet                            *)
(***************************************************************************)
DictIndex(m, k) ==
    IF \E i \in 1..Len(m) : m[i].k = k
    THEN CHOOSE i \in 1..Len(m) : m[i].k = k
    ELSE 0

DictHas(m, k) == DictIndex(m, k) > 0
DictGet(m, k) == m[DictIndex(m, k)].v

\* m[k] = v: a present key keeps its place, a new key goes last
DictPut(m, k, v) ==
    IF DictHas(m, k) THEN [m EXCEPT ![DictIndex(m, k)].v = v]
    ELSE Append(m, [k |-> k, v |-> v])

\* del m[k], k a key of m
DictDel(m, k) ==
    SubSeq(m, 1, DictIndex(m, k) - 1) \o SubSeq(m, DictIndex(m, k) + 1, Len(m))

DictKeys(m) == [i \in 1..Len(m) |-> m[i].k]
DictValues(m) == [i \in 1..Len(m) |-> m[i].v]

RECURSIVE Flatten(_)
Flatten(ss) == IF Len(ss) = 0 THEN <<>> ELSE ss[1] \o Flatten(Tail(ss))

\* IdentitySet.add: self._items[id(item)] = item.  A SerializerDescriptor is created
\* once per key of the serializers dict and never replaced, so its identity is its key
IdentitySetAdd(items, item) ==
    IF item \in Range(items) THEN items ELSE Append(items, item)

(***************************************************************************)
(* parser.py: validators and typed getters                                 *)
(*                                                                         *)
(* A value yaml.load yields is a record whose t is the Python type ("str", *)
(* "bool", "int", "list", "dict", "NoneType"), its content in the field s, *)
(* b, n, es or kvs of that type.  A validator or                           *)
(* getter yields [err, ctx, v]: the value it returns, or the               *)
(* InvalidSchemaError it raises and the address that error carries.        *)
(***************************************************************************)
JStr(s) == [t |-> "str", s |-> s]
JBool(b) == [t |-> "bool", b |-> b]
JInt(n) == [t |-> "int", n |-> n]
JList(es) == [t |-> "list", es |-> es]
JDict(kvs) == [t |-> "dict", kvs |-> kvs]
JNull == [t |-> "NoneType"]

JReturn(v) == [err |-> "", ctx |-> <<>>, v |-> v]
JRaise(ctx) == [err |-> "InvalidSchemaError", ctx |-> ctx, v |-> JNull]

\* isinstance(v, collections.abc.Sequence): a list is one, and so is a str
IsSequence(v) == v.t \in {"list", "str"}

\* isinstance(v, collections.abc.Mapping)
IsMapping(v) == v.t = "dict"

\* what iterating a Sequence yields: the elements of a list, the characters of a str
Elements(v) ==
    IF v.t = "str" THEN [i \in 1..Len(v.s) |-> JStr(Char(v.s, i))] ELSE v.es

\* str(i) of a list index (lists of this model are shorter than ten)
IndexStr(i) == Char("0123456789", i + 1)

validate_as_string(ctx, v) == IF v.t # "str" THEN JRaise(ctx) ELSE JReturn(v)

\* isinstance(v, (int, float)) holds of a bool as well; int(True) is 1
validate_as_integer(ctx, v) ==
    IF v.t \notin {"int", "bool"} THEN JRaise(ctx)
    ELSE IF v.t = "bool" THEN JReturn(JInt(IF v.b THEN 1 ELSE 0))
    ELSE JReturn(v)

validate_as_boolean(ctx, v) == IF v.t # "bool" THEN JRaise(ctx) ELSE JReturn(v)

\* the first exception a comprehension over validated elements raises, or the values
FirstRaise(rs) ==
    IF \E i \in 1..Len(rs) : rs[i].err # ""
    THEN rs[CHOOSE i \in 1..Len(rs) :
                /\ rs[i].err # ""
                /\ \A j \in 1..(i - 1) : rs[j].err = ""]
    ELSE JReturn([i \in 1..Len(rs) |-> rs[i].v])

RECURSIVE validate_as_array(_, _, _)
RECURSIVE validate_as_object(_, _, _)
RECURSIVE ScalarValidator(_, _, _)

validate_as_array(ctx, class_, v) ==
    IF ~IsSequence(v) THEN JRaise(ctx)
    ELSE IF class_ = "object" THEN JReturn(v)
    ELSE LET es == Elements(v)
             r == FirstRaise([i \in 1..Len(es) |->
                                ScalarValidator(class_, Sub(ctx, IndexStr(i - 1)), es[i])])
         IN  IF r.err # "" THEN r ELSE JReturn(JList(r.v))

validate_as_object(ctx, class_, v) ==
    IF ~IsMapping(v) THEN JRaise(ctx)
    ELSE IF class_ = "object" THEN JReturn(v)
    ELSE LET r == FirstRaise([i \in 1..Len(v.kvs) |->
                                ScalarValidator(class_, Sub(ctx, v.kvs[i].k), v.kvs[i].v)])
         IN  IF r.err # "" THEN r
             ELSE JReturn(JDict([i \in 1..Len(v.kvs) |-> [k |-> v.kvs[i].k, v |-> r.v[i]]]))

\* SCALAR_VALIDATORS[class_], the validator find_scalar_validator finds for class_
ScalarValidator(class_, ctx, v) ==
    CASE class_ = "str" -> validate_as_string(ctx, v)
      [] class_ = "int" -> validate_as_integer(ctx, v)
      [] class_ = "bool" -> validate_as_boolean(ctx, v)
      [] class_ = "Mapping" -> validate_as_object(ctx, "object", v)
      [] class_ = "Sequence" -> validate_as_array(ctx, "object", v)

\* v = m.get(prop_name, UNSPECIFIED), then the default; None stands for UNSPECIFIED
Got(m, prop_name, default) ==
    IF DictHas(m, prop_name) THEN Some(DictGet(m, prop_name)) ELSE default

get_as_str(ctx, m, prop_name, default) ==
    LET sub_ctx == Sub(ctx, prop_name)
        v == Got(m, prop_name, default)
    IN  IF IsNone(v) THEN JRaise(sub_ctx)
        ELSE IF The(v).t = "NoneType" THEN JReturn(JNull)
        ELSE validate_as_string(sub_ctx, The(v))

get_as_bool(ctx, m, prop_name, default) ==
    LET sub_ctx == Sub(ctx, prop_name)
        v == Got(m, prop_name, default)
    IN  IF IsNone(v) THEN JRaise(sub_ctx)
        ELSE IF The(v).t = "NoneType" THEN JReturn(JNull)
        ELSE validate_as_boolean(sub_ctx, The(v))

get_as_array(ctx, m, prop_name, class_, default) ==
    LET sub_ctx == Sub(ctx, prop_name)
        v == Got(m, prop_name, default)
    IN  IF IsNone(v) THEN JRaise(sub_ctx)
        ELSE IF The(v).t = "NoneType" THEN JReturn(JNull)
        ELSE validate_as_array(sub_ctx, class_, The(v))

get_as_object(ctx, m, prop_name, class_, default) ==
    LET sub_ctx == Sub(ctx, prop_name)
        v == Got(m, prop_name, default)
    IN  IF IsNone(v) THEN JRaise(sub_ctx)
        ELSE IF The(v).t = "NoneType" THEN JReturn(JNull)
        ELSE validate_as_object(sub_ctx, class_, The(v))

(***************************************************************************)
(* renderer/__init__.py: resolver and descriptor graph                     *)
(***************************************************************************)
\* build_schema_resolver: pointers_to_defs_map[def_.ctx] = def_
RECURSIVE PointersToDefs(_, _)
PointersToDefs(defs, m) ==
    IF Len(defs) = 0 THEN m
    ELSE PointersToDefs(Tail(defs), DictPut(m, defs[1].v.ctx, defs[1].v))

build_schema_resolver(sp) == PointersToDefs(sp.definitions, <<>>)

\* SerializerDescriptor(schema, name, owners=IdentitySet(), many)
SerializerDescriptor(schema, name, many) ==
    [schema |-> schema, name |-> name, owners |-> <<>>, many |-> many]

\* (variant: the descriptor is stored without looking for an existing one)
GetOrCreate_Overwrite(m, schema, name, many) ==
    DictPut(m, schema.ctx, SerializerDescriptor(schema, name, many))

\* me = serializers.get(schema.ctx), created when absent
GetOrCreate(m, schema, name, many) ==
    IF DictHas(m, schema.ctx) THEN m
    ELSE DictPut(m, schema.ctx, SerializerDescriptor(schema, name, many))

\* if qctx.owner is not None: me.owners.add(qctx.owner)
RegisterOwner(m, key, owner) ==
    IF IsNone(owner) THEN m
    ELSE [m EXCEPT ![DictIndex(m, key)].v.owners = IdentitySetAdd(@, The(owner))]

\* The name given to a schema that is not reached as a definition.  The source
\* writes the plain string literal "{qctx.owner.name}_{qctx.pname}" (no f prefix)
NestedName(m, owner, pname) == "{qctx.owner.name}_{qctx.pname}"

\* The depth of nested qualify_child_schemas calls at which the interpreter raises
\* RecursionError (sys.getrecursionlimit(), scaled down; no walk over an acyclic
\* document of this model goes that deep)
RecursionLimit == 10

\* qualify_child_schemas / qualify_child_schemas_inner.  st = [err, m]: the exception
\* raised so far ("" for none) and the serializers dict; owner is the key of
\* qctx.owner (or None), pname is qctx.pname (or None), depth the number of
\* qualify_child_schemas calls on the stack
RECURSIVE qualify_child_schemas(_, _, _, _, _, _, _)
RECURSIVE qualify_child_schemas_inner(_, _, _, _, _, _)
RECURSIVE QualifyProperties(_, _, _, _, _, _)

qualify_child_schemas_inner(st, resolver, owner, pname, schema_or_ref, depth) ==
    IF st.err # "" THEN st
    ELSE IF schema_or_ref.cls = "SchemaRef"
    THEN IF ~DictHas(resolver, schema_or_ref.ref)
         THEN [st EXCEPT !.err = "UnresolvedRefError"]
         ELSE LET schema == DictGet(resolver, schema_or_ref.ref)
              IN  IF schema.cls = "Definition"
                  THEN qualify_child_schemas(st, resolver, owner, pname,
                                             schema.name, schema, depth + 1)
                  ELSE qualify_child_schemas(st, resolver, owner, pname,
                                             NestedName(st.m, owner, pname), schema,
                                             depth + 1)
    ELSE qualify_child_schemas(st, resolver, owner, pname,
                               NestedName(st.m, owner, pname), schema_or_ref, depth + 1)

\* for pname, p in schema.properties.items(): inner(replace(qctx, owner=me, pname=pname), p)
QualifyProperties(st, resolver, me, props, i, depth) ==
    IF i > Len(props) \/ st.err # "" THEN st
    ELSE QualifyProperties(
            qualify_child_schemas_inner(st, resolver, Some(me), Some(props[i].k),
                                        props[i].v, depth),
            resolver, me, props, i + 1, depth)

\* (variant: an array gets a descriptor whether or not it is a definition)
qualify_child_schemas_EveryArray(st, resolver, owner, pname, name, schema, depth) ==
    IF st.err # "" THEN st
    ELSE IF depth > RecursionLimit THEN [st EXCEPT !.err = "RecursionError"]
    ELSE IF schema.type_ = "object"
    THEN LET m1 == RegisterOwner(GetOrCreate(st.m, schema, name, None),
                                 schema.ctx, owner)
         IN  IF IsNone(schema.properties)
             THEN [err |-> "AssertionError", m |-> m1]
             ELSE QualifyProperties([err |-> "", m |-> m1], resolver, schema.ctx,
                                    The(schema.properties), 1, depth)
    ELSE IF schema.type_ = "array"
    THEN IF IsNone(schema.items)
         THEN [st EXCEPT !.err = "AssertionError"]
         ELSE LET it == The(schema.items)
                  many == Some(IF it.cls = "SchemaRef" THEN it.ref ELSE it.ctx)
                  m1 == RegisterOwner(GetOrCreate(st.m, schema, name, many),
                                      schema.ctx, owner)
              IN  qualify_child_schemas_inner([err |-> "", m |-> m1], resolver,
                                              Some(schema.ctx), pname, it, depth)
    ELSE st

qualify_child_schemas(st, resolver, owner, pname, name, schema, depth) ==
    IF st.err # "" THEN st
    ELSE IF depth > RecursionLimit THEN [st EXCEPT !.err = "RecursionError"]
    ELSE IF schema.type_ = "object"
    THEN LET m1 == RegisterOwner(GetOrCreate(st.m, schema, name, None),
                                 schema.ctx, owner)
         IN  IF IsNone(schema.properties)
             THEN [err |-> "AssertionError", m |-> m1]
             ELSE QualifyProperties([err |-> "", m |-> m1], resolver, schema.ctx,
                                    The(schema.properties), 1, depth)
    ELSE IF schema.type_ = "array"
    THEN IF IsNone(schema.items)
         THEN [st EXCEPT !.err = "AssertionError"]
         ELSE IF schema.cls = "Definition"
         THEN LET it == The(schema.items)
                  many == Some(IF it.cls = "SchemaRef" THEN it.ref ELSE it.ctx)
                  m1 == RegisterOwner(GetOrCreate(st.m, schema, name, many),
                                      schema.ctx, owner)
              IN  qualify_child_schemas_inner([err |-> "", m |-> m1], resolver,
                                              Some(schema.ctx), pname, it, depth)
         ELSE qualify_child_schemas_inner(st, resolver, owner, pname, The(schema.items),
                                          depth)
    ELSE st

\* build_pseudo_name: "_".join(c[1:-1] if c is {..} else c for c in path.path.split("/"))
StripBraces(c) ==
    IF Len(c) > 0 /\ Char(c, 1) = "{" /\ Char(c, Len(c)) = "}"
    THEN SubSeq(c, 2, Len(c) - 1)
    ELSE c

build_pseudo_name(path, verb) ==
    LET cs == StrSplit(path.path, "/")
    IN  StrJoin("_", [i \in 1..Len(cs) |-> StripBraces(cs[i])])

\* The (path, verb, response) triples in the order of the nested loops
\*   for path in spec.paths: for verb in path.verbs.values():
\*       for resp in verb.responses.values()
Responses(sp) ==
    Flatten([i \in 1..Len(sp.paths) |->
        Flatten([j \in 1..Len(sp.paths[i].verbs) |->
            LET verb == sp.paths[i].verbs[j].v
            IN  [n \in 1..Len(verb.responses) |->
                    [path |-> sp.paths[i], verb |-> verb,
                     resp |-> verb.responses[n].v]]])])

\* (variant: the responses of verbs without a function name are taken as well)
Pass1Takes_Unflagged(verb, resp) == ~IsNone(resp.schema)

\* Whether pass 1 looks at this response of this verb
Pass1Takes(verb, resp) ==
    /\ ~IsNone(verb.function_name)
    /\ ~IsNone(resp.schema)

\* pass 1 of build_serializers: important_schema_refs and pseudo_defs
RECURSIVE Pass1(_, _)
Pass1(rs, acc) ==
    IF Len(rs) = 0 THEN acc
    ELSE LET r == rs[1]
         IN  IF ~Pass1Takes(r.verb, r.resp) THEN Pass1(Tail(rs), acc)
             ELSE LET schema == The(r.resp.schema)
                  IN  IF schema.cls = "SchemaRef"
                      THEN Pass1(Tail(rs),
                                 [acc EXCEPT !.important_schema_refs = @ \cup {schema.ref}])
                      ELSE Pass1(Tail(rs),
                                 [acc EXCEPT !.pseudo_defs =
                                    DictPut(@, schema.ctx,
                                        [schema EXCEPT !.cls = "Definition",
                                            !.name = build_pseudo_name(r.path, r.verb)])])

CollectRequired(sp) ==
    Pass1(Responses(sp), [important_schema_refs |-> {}, pseudo_defs |-> <<>>])

\* pass 2 of build_serializers, first loop: the important definitions
RECURSIVE QualifyDefinitions(_, _, _, _)
QualifyDefinitions(st, resolver, important, defs) ==
    IF Len(defs) = 0 THEN st
    ELSE LET def_ == defs[1].v
         IN  QualifyDefinitions(
                IF def_.ctx \notin important THEN st
                ELSE qualify_child_schemas(st, resolver, None, None, def_.name, def_, 1),
                resolver, important, Tail(defs))

\* pass 2 of build_serializers, second loop: the object-typed pseudo-definitions
RECURSIVE QualifyPseudoDefs(_, _, _)
QualifyPseudoDefs(st, resolver, pdefs) ==
    IF Len(pdefs) = 0 THEN st
    ELSE LET def_ == pdefs[1].v
         IN  QualifyPseudoDefs(
                IF def_.type_ # "object" THEN st
                ELSE qualify_child_schemas(st, resolver, None, None, def_.name, def_, 1),
                resolver, Tail(pdefs))

\* build_serializers(spec, schema_resolver): [err, m]
build_serializers(sp, resolver) ==
    LET req == CollectRequired(sp)
    IN  QualifyPseudoDefs(
            QualifyDefinitions([err |-> "", m |-> <<>>], resolver,
                               req.important_schema_refs, sp.definitions),
            resolver, req.pseudo_defs)

(***************************************************************************)
(* renderer/__init__.py: weights and emission order                        *)
(***************************************************************************)
\* eval_weights: the inner function _ with its memo dict `weights`, keyed by
\* id(ser_descr); returns [memo, v]
RECURSIVE WeightOf(_, _, _)
RECURSIVE SumOwnerWeights(_, _, _, _, _)
SumOwnerWeights(memo, m, owners, i, acc) ==
    IF i > Len(owners) THEN [memo |-> memo, v |-> acc]
    ELSE LET r == WeightOf(memo, m, owners[i])
         IN  SumOwnerWeights(r.memo, m, owners, i + 1, acc + r.v)

\* (variant: the memo keeps the sum of the owners' weights, without the 1)
WeightOf_MemoSum(memo, m, key) ==
    IF DictHas(memo, key) THEN [memo |-> memo, v |-> DictGet(memo, key)]
    ELSE LET r == SumOwnerWeights(memo, m, DictGet(m, key).owners, 1, 0)
         IN  [memo |-> DictPut(r.memo, key, r.v), v |-> r.v + 1]

WeightOf(memo, m, key) ==
    IF DictHas(memo, key) THEN [memo |-> memo, v |-> DictGet(memo, key)]
    ELSE LET r == SumOwnerWeights(memo, m, DictGet(m, key).owners, 1, 0)
         IN  [memo |-> DictPut(r.memo, key, r.v + 1), v |-> r.v + 1]

RECURSIVE EvalWeightsFrom(_, _, _)
EvalWeightsFrom(memo, m, i) ==
    IF i > Len(m) THEN <<>>
    ELSE LET r == WeightOf(memo, m, m[i].k)
         IN  <<[d |-> m[i].k, w |-> r.v]>> \o EvalWeightsFrom(r.memo, m, i + 1)

\* eval_weights(serializers.values()): the (descriptor, weight) pairs, in dict order
eval_weights(m) == EvalWeightsFrom(<<>>, m, 1)

\* (variant: the key is the weight itself, so the order is by increasing weight)
SortKey_Ascending(pair) == pair.w

\* sorted(pairs, key=lambda pair: -pair[1]): Python's sort is stable
SortKey(pair) == 0 - pair.w

RECURSIVE StableInsert(_, _)
\* (variant: an element goes before the elements of equal key: not stable)
StableInsert_BeforeEqual(sorted, x) ==
    IF Len(sorted) = 0 THEN <<x>>
    ELSE IF SortKey(sorted[Len(sorted)]) < SortKey(x) THEN Append(sorted, x)
    ELSE Append(StableInsert(SubSeq(sorted, 1, Len(sorted) - 1), x), sorted[Len(sorted)])

StableInsert(sorted, x) ==
    IF Len(sorted) = 0 THEN <<x>>
    ELSE IF SortKey(sorted[Len(sorted)]) <= SortKey(x) THEN Append(sorted, x)
    ELSE Append(StableInsert(SubSeq(sorted, 1, Len(sorted) - 1), x), sorted[Len(sorted)])

RECURSIVE SortedFrom(_, _)
SortedFrom(pairs, acc) ==
    IF Len(pairs) = 0 THEN acc
    ELSE SortedFrom(Tail(pairs), StableInsert(acc, pairs[1]))

Sorted(pairs) == SortedFrom(pairs, <<>>)

(***************************************************************************)
(* renderer/naming_conv.py                                                 *)
(***************************************************************************)
\* str.lower()
RECURSIVE StrLower(_)
StrLower(v) == IF Len(v) = 0 THEN "" ELSE ToLower(Char(v, 1)) \o StrLower(Rest(v))

\* the multi-letter alternatives of the pattern "(JSON|HTTPS|HTTP|XML|ID|[A-Z])",
\* in the order the regular expression tries them
Acronyms == <<"JSON", "HTTPS", "HTTP", "XML", "ID">>

\* ident[a:b], a Python slice (0-based, b excluded)
Slice(ident, a, b) == SubSeq(ident, a + 1, b)

AcronymsAt(ident, a) ==
    {i \in 1..Len(Acronyms) :
        /\ a + Len(Acronyms[i]) <= Len(ident)
        /\ Slice(ident, a, a + Len(Acronyms[i])) = Acronyms[i]}

\* the length of the match of the pattern at offset a, 0 when it does not match
MatchLen(ident, a) ==
    IF AcronymsAt(ident, a) # {}
    THEN Len(Acronyms[CHOOSE i \in AcronymsAt(ident, a) :
                         \A j \in AcronymsAt(ident, a) : i <= j])
    ELSE IF LetterIndex(UpperLetters, Slice(ident, a, a + 1)) > 0 THEN 1
    ELSE 0

\* re.finditer: the spans of the matches, leftmost first, not overlapping
RECURSIVE FindSpans(_, _)
FindSpans(ident, a) ==
    IF a >= Len(ident) THEN <<>>
    ELSE IF MatchLen(ident, a) = 0 THEN FindSpans(ident, a + 1)
    ELSE <<<<a, a + MatchLen(ident, a)>>>> \o FindSpans(ident, a + MatchLen(ident, a))

\* the body of the loop over the matches
TokenizeStep(ident, st, span) ==
    LET gap == span[1] > st.s
        seq1 == IF gap THEN Append(st.seq, StrLower(st.keep \o Slice(ident, st.s, span[1])))
                ELSE st.seq
        keep1 == IF gap THEN "" ELSE st.keep
        cap1 == IF gap /\ st.s = 0 THEN TRUE ELSE st.starts_with_capital
    IN  IF span[2] - span[1] = 1
        THEN [s |-> span[2], starts_with_capital |-> cap1,
              seq |-> IF keep1 # "" THEN Append(seq1, StrLower(keep1)) ELSE seq1,
              keep |-> Slice(ident, span[1], span[2])]
        ELSE [s |-> span[2], starts_with_capital |-> cap1,
              seq |-> Append(seq1, StrLower(Slice(ident, span[1], span[2]))),
              keep |-> keep1]

RECURSIVE TokenizeFrom(_, _, _)
TokenizeFrom(ident, st, spans) ==
    IF Len(spans) = 0 THEN st
    ELSE TokenizeFrom(ident, TokenizeStep(ident, st, spans[1]), Tail(spans))

\* tokenize_camel_case_identifier(ident): [cap, tokens]
tokenize_camel_case_identifier(ident) ==
    LET st == TokenizeFrom(ident,
                 [s |-> 0, starts_with_capital |-> FALSE, seq |-> <<>>, keep |-> ""],
                 FindSpans(ident, 0))
    IN  [cap |-> st.starts_with_capital,
         tokens |-> IF st.s < Len(ident) \/ st.keep # ""
                    THEN Append(st.seq, StrLower(st.keep \o Slice(ident, st.s, Len(ident))))
                    ELSE st.seq]

\* render_as_snake_case(tokens)
render_as_snake_case(tokens) == StrJoin("_", tokens.tokens)

\* tokenize_snake_case_identifier(ident, starts_with_capital)
tokenize_snake_case_identifier(ident, starts_with_capital) ==
    [cap |-> starts_with_capital, tokens |-> StrSplit(ident, "_")]

\* render_as_camel_case((starts_with_capital, tokens))
RECURSIVE StrConcat(_)
StrConcat(parts) == IF Len(parts) = 0 THEN "" ELSE parts[1] \o StrConcat(Tail(parts))

\* (variant: every token is title-cased, whatever the flag)
render_as_camel_case_TitleAll(t) ==
    StrConcat([i \in 1..Len(t.tokens) |-> StrTitle(t.tokens[i])])

render_as_camel_case(t) ==
    StrConcat([i \in 1..Len(t.tokens) |->
                IF i # 1 \/ t.cap THEN StrTitle(t.tokens[i]) ELSE t.tokens[i]])

(***************************************************************************)
(* renderer/__init__.py: render, wiring verbs and grouping them            *)
(***************************************************************************)
IsFlagged(kv) == ~IsNone(kv.v.function_name)

\* (variant: only the first verb that carries a function name is taken)
FlaggedVerbs_FirstOnly(path) ==
    LET fl == SelectSeq(path.verbs, IsFlagged)
    IN  [i \in 1..(IF Len(fl) = 0 THEN 0 ELSE 1) |-> fl[i].v]

\* the verbs of a path that carry a function name, in dict order
FlaggedVerbs(path) ==
    LET fl == SelectSeq(path.verbs, IsFlagged)
    IN  [i \in 1..Len(fl) |-> fl[i].v]

\* (variant: a verb whose schema has no descriptor is left unwired, without error)
WireVerb_Lenient(resolver, m, verb) ==
    IF ~DictHas(verb.responses, "200") \/ IsNone(DictGet(verb.responses, "200").schema)
    THEN [err |-> "", ser |-> None]
    ELSE LET s == The(DictGet(verb.responses, "200").schema)
         IN  IF s.cls = "SchemaRef" /\ ~DictHas(resolver, s.ref)
             THEN [err |-> "UnresolvedRefError", ser |-> None]
             ELSE LET schema == IF s.cls = "SchemaRef" THEN DictGet(resolver, s.ref) ELSE s
                  IN  IF ~DictHas(m, schema.ctx)
                      THEN [err |-> "", ser |-> None]
                      ELSE [err |-> "", ser |-> Some(schema.ctx)]

\* resp = verb.responses.get("200"); the descriptor of its resolved schema.
\* [err, ser]: ser is the key of the descriptor, or None
WireVerb(resolver, m, verb) ==
    IF ~DictHas(verb.responses, "200") \/ IsNone(DictGet(verb.responses, "200").schema)
    THEN [err |-> "", ser |-> None]
    ELSE LET s == The(DictGet(verb.responses, "200").schema)
         IN  IF s.cls = "SchemaRef" /\ ~DictHas(resolver, s.ref)
             THEN [err |-> "UnresolvedRefError", ser |-> None]
             ELSE LET schema == IF s.cls = "SchemaRef" THEN DictGet(resolver, s.ref) ELSE s
                  IN  IF ~DictHas(m, schema.ctx)
                      THEN [err |-> "UnsupportedOpenAPISchema", ser |-> None]
                      ELSE [err |-> "", ser |-> Some(schema.ctx)]

\* (variant: name[1:], the leading token dropped instead of the trailing one)
NamePrefix_DropFirst(tokens) == SubSeq(tokens, 2, Len(tokens))

\* name[:-1] of a tokenized function name
NamePrefix(tokens) == SubSeq(tokens, 1, Len(tokens) - 1)

\* endpoint_name_candidates
EndpointNameCandidates(verbs) ==
    {NamePrefix(tokenize_snake_case_identifier(The(verbs[i].function_name), TRUE).tokens)
        : i \in 1..Len(verbs)}

\* (variant: `if endpoint_name_candidates:`, any non-empty set of candidates)
IsGrouped_NonEmpty(cands) == Cardinality(cands) >= 1

\* if len(endpoint_name_candidates) == 1
IsGrouped(cands) == Cardinality(cands) = 1

\* One iteration of the loop over spec.paths: [err, endpoints, individual_handlers]
\* as this path leaves them.  An Endpoint holds its Path, here the path template,
\* which is the key of the path in the document
GroupPath(resolver, m, path) ==
    LET verbs == FlaggedVerbs(path)
        wired == [i \in 1..Len(verbs) |-> WireVerb(resolver, m, verbs[i])]
        verb_descrs == [i \in 1..Len(verbs) |->
                          [verb |-> verbs[i], serializer_descriptor |-> wired[i].ser]]
        cands == EndpointNameCandidates(verbs)
    IN  IF FirstErr([i \in 1..Len(verbs) |-> wired[i].err]) # ""
        THEN [err |-> FirstErr([i \in 1..Len(verbs) |-> wired[i].err]),
              endpoints |-> <<>>, individual_handlers |-> <<>>]
        ELSE IF IsGrouped(cands)
        THEN [err |-> "",
              endpoints |-> <<[path |-> path.path,
                               class_name |->
                                  render_as_camel_case(
                                      [cap |-> TRUE,
                                       tokens |-> CHOOSE c \in cands : TRUE]) \o "View",
                               verbs |-> verb_descrs]>>,
              individual_handlers |-> <<>>]
        ELSE [err |-> "", endpoints |-> <<>>,
              individual_handlers |->
                 [i \in 1..Len(verb_descrs) |->
                     [path |-> path.path, verb_descr |-> verb_descrs[i]]]]

RECURSIVE GroupPaths(_, _, _, _)
GroupPaths(acc, resolver, m, paths) ==
    IF Len(paths) = 0 \/ acc.err # "" THEN acc
    ELSE LET g == GroupPath(resolver, m, paths[1])
         IN  GroupPaths([err |-> g.err,
                         endpoints |-> acc.endpoints \o g.endpoints,
                         individual_handlers |->
                            acc.individual_handlers \o g.individual_handlers],
                        resolver, m, Tail(paths))

(***************************************************************************)
(* renderer/__init__.py: route rendering                                   *)
(***************************************************************************)
\* (variant: a number is routed with the float converter)
JSON_TYPE_TO_PYTHON_TYPE_MAP_NumberFloat ==
    <<[k |-> "integer", v |-> "int"], [k |-> "number", v |-> "float"],
      [k |-> "string", v |-> "str"]>>

\* JSON_TYPE_TO_PYTHON_TYPE_MAP, each Python type by its __name__
JSON_TYPE_TO_PYTHON_TYPE_MAP ==
    <<[k |-> "integer", v |-> "int"], [k |-> "number", v |-> "int"],
      [k |-> "string", v |-> "str"]>>

\* the loop that fills param_dict from the parameters of every verb of the path:
\* the first declaration of a name sets its type, a later one must agree
RECURSIVE ParamDictFrom(_, _)
ParamDictFrom(ps, param_dict) ==
    IF Len(ps) = 0 THEN [err |-> "", v |-> param_dict]
    ELSE LET p == ps[1]
         IN  IF DictHas(param_dict, p.name)
             THEN IF DictGet(param_dict, p.name) # p.type_
                  THEN [err |-> "UnsupportedOpenAPISchema", v |-> param_dict]
                  ELSE ParamDictFrom(Tail(ps), param_dict)
             ELSE ParamDictFrom(Tail(ps), DictPut(param_dict, p.name, p.type_))

IsPlaceholder(c) == Char(c, 1) = "{" /\ Char(c, Len(c)) = "}"

\* the loop over the path components: [err, v] with v the list rcs
RECURSIVE RouteComponents(_, _, _)
RouteComponents(cs, param_dict, rcs) ==
    IF Len(cs) = 0 THEN [err |-> "", v |-> rcs]
    ELSE LET c == cs[1]
             name == SubSeq(c, 2, Len(c) - 1)
         IN  IF c = "" THEN RouteComponents(Tail(cs), param_dict, rcs)
             ELSE IF IsPlaceholder(c)
             THEN IF ~DictHas(param_dict, name)
                  THEN [err |-> "UnsupportedOpenAPISchema", v |-> rcs]
                  ELSE IF ~DictHas(JSON_TYPE_TO_PYTHON_TYPE_MAP, DictGet(param_dict, name))
                  THEN [err |-> "UnsupportedOpenAPISchema", v |-> rcs]
                  ELSE RouteComponents(Tail(cs), param_dict,
                          Append(rcs, "<" \o DictGet(JSON_TYPE_TO_PYTHON_TYPE_MAP,
                                                     DictGet(param_dict, name))
                                      \o ":" \o name \o ">"))
             ELSE RouteComponents(Tail(cs), param_dict, Append(rcs, c))

\* render_as_django_url_pattern(path): [err, v] with v the pattern
render_as_django_url_pattern(path) ==
    LET pd == ParamDictFrom(
                 Flatten([i \in 1..Len(path.verbs) |-> path.verbs[i].v.parameters]), <<>>)
        cs0 == StrSplit(path.path, "/")
        cs == IF cs0[1] = "" THEN Tail(cs0) ELSE cs0
        r == RouteComponents(cs, pd.v, <<>>)
    IN  IF pd.err # "" THEN [err |-> pd.err, v |-> ""]
        ELSE IF r.err # "" THEN [err |-> r.err, v |-> ""]
        ELSE [err |-> "", v |-> StrJoin("/", r.v)]

(***************************************************************************)
(* renderer/codegen.py: the constructors of AST fragments                  *)
(*                                                                         *)
(* A pytree.Leaf is [leaf |-> its text]; the Node a function call builds   *)
(* is [callee, kwargs], kwargs the (name, value) pairs in order.  A value  *)
(* a Python expression yields is Some(node), or None for Python's None.    *)
(***************************************************************************)
Leaf(value) == [leaf |-> value]

\* repr(source) of a str without quotes or escapes in it
Repr(v) == "'" \o v \o "'"

build_python_function_call(callee, kwargs) == [callee |-> callee, kwargs |-> kwargs]

Kwarg(name, value) == [name |-> name, value |-> value]

\* *([("source", Leaf(repr(source)))] if name != source else [])
SourceKwarg(name, source) ==
    IF name # source THEN <<Kwarg("source", Some(Leaf(Repr(source))))>> ELSE <<>>

\* *aux.items()
AuxItems(aux) == [i \in 1..Len(aux) |-> Kwarg(aux[i].k, Some(aux[i].v))]

Returned(node) == [err |-> "", node |-> Some(node)]
Raised(e) == [err |-> e, node |-> None]

build_decimal_field(nbctx, schema, name, source, aux) ==
    Returned(build_python_function_call(<<"fields", "DecimalField">>,
            SourceKwarg(name, source)
            \o <<Kwarg("max_digits", Some(Leaf("20"))),
                 Kwarg("decimal_places", Some(Leaf("20")))>>
            \o AuxItems(aux)))

build_integer_field(nbctx, schema, name, source, aux) ==
    Returned(build_python_function_call(<<"fields", "IntegerField">>,
            SourceKwarg(name, source) \o AuxItems(aux)))

build_float_field(nbctx, schema, name, source, aux) ==
    Returned(build_python_function_call(<<"fields", "FloatField">>,
            SourceKwarg(name, source) \o AuxItems(aux)))

build_char_field(nbctx, schema, name, source, aux) ==
    Returned(build_python_function_call(<<"fields", "CharField">>,
            SourceKwarg(name, source) \o AuxItems(aux)))

build_boolean_field(nbctx, schema, name, source, aux) ==
    Returned(build_python_function_call(<<"fields", "BooleanField">>,
            SourceKwarg(name, source) \o AuxItems(aux)))

\* SerializerDescriptor.serializer_class_name
serializer_class_name(ser_descr) == ser_descr.name \o "Serializer"

\* ser_descr = nbctx.serializers[schema.ctx]: a missing key raises KeyError
build_nested_serializer(nbctx, schema, name, source, aux) ==
    IF ~DictHas(nbctx.serializers, schema.ctx) THEN Raised("KeyError")
    ELSE Returned(build_python_function_call(
                  <<serializer_class_name(DictGet(nbctx.serializers, schema.ctx))>>,
                  SourceKwarg(name, source) \o AuxItems(aux)))

\* (variant: the format-agnostic entry is looked up first)
DefaultNodeBuilderRegistry_AgnosticFirst(mapping, type_, format) ==
    IF DictHas(mapping, <<type_, None>>)
    THEN [err |-> "", fn |-> DictGet(mapping, <<type_, None>>), args |-> <<>>]
    ELSE IF DictHas(mapping, <<type_, format>>)
    THEN [err |-> "", fn |-> DictGet(mapping, <<type_, format>>), args |-> <<>>]
    ELSE [err |-> "UnsupportedOpenAPISchema", fn |-> "", args |-> <<type_, format>>]

\* DefaultNodeBuilderRegistry.__call__ over its _mapping: [err, fn, args], args the
\* kind and format the exception's message is formatted from
DefaultNodeBuilderRegistry(mapping, type_, format) ==
    IF DictHas(mapping, <<type_, format>>)
    THEN [err |-> "", fn |-> DictGet(mapping, <<type_, format>>), args |-> <<>>]
    ELSE IF DictHas(mapping, <<type_, None>>)
    THEN [err |-> "", fn |-> DictGet(mapping, <<type_, None>>), args |-> <<>>]
    ELSE [err |-> "UnsupportedOpenAPISchema", fn |-> "", args |-> <<type_, format>>]

default_node_builder_registry ==
    <<[k |-> <<"number", None>>, v |-> "build_float_field"],
      [k |-> <<"integer", None>>, v |-> "build_integer_field"],
      [k |-> <<"string", None>>, v |-> "build_char_field"],
      [k |-> <<"boolean", None>>, v |-> "build_boolean_field"],
      [k |-> <<"array", None>>, v |-> "build_list_serializer"],
      [k |-> <<"object", None>>, v |-> "build_nested_serializer"]>>

\* the element schema build_list_serializer builds the field of: [err, v]
ElemSchema(nbctx, schema) ==
    IF IsNone(schema.items) THEN [err |-> "AssertionError", v |-> <<>>]
    ELSE IF The(schema.items).cls = "SchemaRef"
    THEN IF DictHas(nbctx.serializers, The(schema.items).ref)
         THEN [err |-> "", v |-> DictGet(nbctx.serializers, The(schema.items).ref).schema]
         ELSE [err |-> "UnsupportedOpenAPISchema", v |-> <<>>]
    ELSE IF /\ DictHas(nbctx.serializers, schema.ctx)
            /\ DictGet(nbctx.serializers, schema.ctx).schema # schema
    THEN [err |-> "", v |-> DictGet(nbctx.serializers, schema.ctx).schema]
    ELSE [err |-> "", v |-> The(schema.items)]

RECURSIVE build_property(_, _, _, _, _)
\* in the generic list field the child is the value of build_property; the
\* pytree.Node of the argument sets the parent of each of its children, which raises
\* AttributeError on a child that is None
RECURSIVE build_list_serializer(_, _, _, _, _)

\* the call of a NodeBuilderFunction the registry returned
NodeBuilderFunction(fn, nbctx, schema, name, source, aux) ==
    CASE fn = "build_decimal_field" -> build_decimal_field(nbctx, schema, name, source, aux)
      [] fn = "build_integer_field" -> build_integer_field(nbctx, schema, name, source, aux)
      [] fn = "build_float_field" -> build_float_field(nbctx, schema, name, source, aux)
      [] fn = "build_char_field" -> build_char_field(nbctx, schema, name, source, aux)
      [] fn = "build_boolean_field" -> build_boolean_field(nbctx, schema, name, source, aux)
      [] fn = "build_list_serializer" ->
            build_list_serializer(nbctx, schema, name, source, aux)
      [] fn = "build_nested_serializer" ->
            build_nested_serializer(nbctx, schema, name, source, aux)

\* build_property: [err, built, node].  built is what the selected constructor
\* returned; node is what build_property returns to its caller: the function has no
\* return statement, so None
build_property(nbctx, schema, name, source, aux) ==
    LET sel == DefaultNodeBuilderRegistry(nbctx.node_builder_registry,
                                          schema.type_, schema.format)
        r == NodeBuilderFunction(sel.fn, nbctx, schema, name, source, aux)
    IN  IF sel.err # "" THEN [err |-> sel.err, built |-> None, node |-> None]
        ELSE IF r.err # "" THEN [err |-> r.err, built |-> None, node |-> None]
        ELSE [err |-> "", built |-> r.node, node |-> None]

build_list_serializer(nbctx, schema, name, source, aux) ==
    LET e == ElemSchema(nbctx, schema)
        many == build_property(nbctx, e.v, name, source,
                               DictPut(aux, "many", Leaf("True")))
        child == build_property(nbctx, e.v, "", "", <<>>)
    IN  IF e.err # "" THEN Raised(e.err)
        ELSE IF e.v.type_ = "object"
        THEN [err |-> many.err, node |-> many.node]
        ELSE IF child.err # "" THEN Raised(child.err)
        ELSE IF IsNone(child.node) THEN Raised("AttributeError")
        ELSE Returned(build_python_function_call(<<"fields", "ListField">>,
                        SourceKwarg(name, source)
                        \o <<Kwarg("child", child.node)>>
                        \o AuxItems(aux)))

\* render_property: the fragment of a property, handed to the PytreeRenderer.  The
\* renderer wraps its argument in a pytree.Node, which raises AttributeError on None
render_property(rctx, schema, name) ==
    LET r == build_property(rctx, schema, name,
                render_as_snake_case(tokenize_camel_case_identifier(name)), <<>>)
    IN  IF r.err # "" THEN r.err
        ELSE IF IsNone(r.node) THEN "AttributeError"
        ELSE ""

(***************************************************************************)
(* The documents the runs start from                                       *)
(***************************************************************************)
MaxProps == 2    \* properties of the definition A
MaxVerbs == 2    \* verbs of a document, over its paths

Prop(k, v) == [k |-> k, v |-> v]
NoKeys == [ref |-> None, type |-> None, format |-> None, properties |-> None,
           items |-> None]
RefR(name) == [NoKeys EXCEPT !.ref = Some("#/definitions/" \o name)]
ScalarR(t) == [NoKeys EXCEPT !.type = Some(t)]
ObjR(props) == [NoKeys EXCEPT !.properties = Some(props)]
ArrR(it) == [NoKeys EXCEPT !.items = Some(it)]

VerbR(fname, parameters, responses) ==
    [fname |-> fname, parameters |-> parameters, responses |-> responses]
ParamR(name, type) == [name |-> name, in |-> "path", type |-> type, required |-> None]
RespR(status, schema) == <<[k |-> status, v |-> [schema |-> schema]]>>

Methods == <<"get", "post", "put", "patch", "delete">>
Templates == <<"/widgets/{id}", "/widgets">>

\* Sequences of length 1..n over S
SeqsUpTo(S, n) == UNION {[1..k -> S] : k \in 1..n}

\* --- documents with a rich definition graph and plain paths ---
ValuesA ==
    {ScalarR("string"), RefR("B"), RefR("C"), ObjR(<<Prop("n", RefR("C"))>>)}

ShapesA ==
    {ObjR([i \in 1..Len(vs) |-> Prop("p" \o ToString(i), vs[i])])
        : vs \in SeqsUpTo(ValuesA, MaxProps)}
    \cup {ArrR(RefR("B")), ScalarR("object"), ObjR(<<Prop("m", RefR("Missing"))>>)}

ShapesB ==
    {ObjR(<<Prop("c", RefR("C"))>>), ArrR(RefR("C")),
     ObjR(<<Prop("l", ArrR(RefR("C")))>>)}

ShapesC ==
    {ObjR(<<Prop("x", ScalarR("integer"))>>), [ScalarR("string") EXCEPT !.format = Some("date")]}

GraphDefinitions ==
    UNION {{ <<Prop("A", a), Prop("B", b), Prop("C", c)>>,
             <<Prop("C", c), Prop("B", b), Prop("A", a)>> }
            : <<a, b, c>> \in ShapesA \X ShapesB \X ShapesC}

InlineParent == ObjR(<<Prop("b", RefR("B")), Prop("c", RefR("C"))>>)

RootPath(i, fname, schema) ==
    Prop(Templates[i], <<Prop("get", VerbR(Some(fname), <<>>, RespR("200", Some(schema))))>>)

Roots ==
    {<<RefR("A")>>, <<RefR("B")>>, <<RefR("C")>>, <<InlineParent>>,
     <<RefR("A"), RefR("B")>>, <<InlineParent, RefR("C")>>, <<InlineParent, RefR("B")>>}

\* one flagged get per root, each on a path of its own
GraphPaths ==
    {[i \in 1..Len(rs) |-> RootPath(i, IF i = 1 THEN "widget_get" ELSE "widget_list", rs[i])]
        : rs \in Roots}

GraphDocs ==
    {[definitions |-> ds, paths |-> ps] : <<ds, ps>> \in GraphDefinitions \X GraphPaths}

\* --- documents with plain definitions and rich paths ---
PlainDefinitions ==
    <<Prop("A", ObjR(<<Prop("c", RefR("C"))>>)),
      Prop("B", ScalarR("string")),
      Prop("C", ObjR(<<Prop("x", ScalarR("integer"))>>))>>

FNames ==
    {None, Some("widget_list"), Some("widget_create"), Some("list_widget"),
     Some("create_widget")}

ResponseSets ==
    {RespR("200", None),
     RespR("200", Some(RefR("A"))),
     RespR("200", Some(RefR("B"))),
     RespR("200", Some(ObjR(<<Prop("c", RefR("C"))>>))),
     RespR("200", Some(ScalarR("string"))),
     RespR("404", Some(RefR("A"))),
     RespR("404", Some(ObjR(<<Prop("x", ScalarR("integer"))>>))),
     RespR("200", Some(RefR("Missing")))}

ParameterLists ==
    {<<>>,
     <<ParamR("id", Some("integer")), ParamR("q", Some("string"))>>,
     <<ParamR("id", None)>>,
     <<[ParamR("id", Some("integer")) EXCEPT !.required = Some(FALSE)], ParamR("q", None)>>}

\* the verbs of a document with one verb
VerbReprs ==
    {VerbR(f, <<>>, RespR("200", Some(RefR("A")))) : f \in FNames}
    \cup {VerbR(Some("widget_list"), <<>>, r) : r \in ResponseSets}
    \cup {VerbR(None, <<>>, RespR("404", Some(RefR("A"))))}
    \cup {VerbR(Some("widget_list"), ps, RespR("200", Some(RefR("A"))))
            : ps \in ParameterLists}

\* the verbs of a document with several verbs
GroupVerbReprs ==
    {VerbR(f, <<>>, RespR("200", Some(RefR("A")))) : f \in FNames}
    \cup {VerbR(Some("widget_list"), <<>>, RespR("200", Some(s)))
            : s \in {ObjR(<<Prop("c", RefR("C"))>>), ScalarR("string")}}
    \cup {VerbR(Some("widget_list"), <<>>, RespR("200", None))}

\* a path with the verbs vs under the methods get, post, ...
PathR(i, vs) == Prop(Templates[i], [j \in 1..Len(vs) |-> Prop(Methods[j], vs[j])])

VerbLists(n, total) == [1..n -> IF total = 1 THEN VerbReprs ELSE GroupVerbReprs]

\* one or two paths holding at most MaxVerbs verbs together
RichPaths ==
    UNION {{<<PathR(1, vs)>> : vs \in VerbLists(n, n)} : n \in 0..MaxVerbs}
    \cup UNION {UNION {{<<PathR(1, vs1), PathR(2, vs2)>>
                          : <<vs1, vs2>> \in VerbLists(n1, n1 + n2) \X VerbLists(n2, n1 + n2)}
                       : n2 \in 1..(MaxVerbs - n1)}
                : n1 \in 0..MaxVerbs}

PathDocs == {[definitions |-> PlainDefinitions, paths |-> ps] : ps \in RichPaths}

\* --- documents without definitions, one path with parameters ---
RouteTemplates == {"/items/{itemId}", "/items", "items/{itemId}/parts", "/items//{q}/{itemId}"}

RouteParameterLists ==
    {<<>>,
     <<ParamR("itemId", Some("integer"))>>,
     <<ParamR("itemId", Some("number"))>>,
     <<ParamR("itemId", Some("string"))>>,
     <<ParamR("itemId", Some("boolean"))>>,
     <<ParamR("q", Some("string"))>>,
     <<ParamR("q", Some("integer"))>>,
     <<ParamR("itemId", Some("integer")), ParamR("itemId", Some("string"))>>}

RouteFNames == <<Some("item_get"), Some("item_put"), None, Some("remove_item")>>

\* a path whose verbs carry the parameter lists pss and no response schema
RoutePath(t, pss) ==
    Prop(t, [j \in 1..Len(pss) |->
                Prop(Methods[j], VerbR(RouteFNames[j], pss[j], RespR("200", None)))])

RouteDocs ==
    {[definitions |-> <<>>, paths |-> <<RoutePath(t, pss)>>]
        : <<t, pss>> \in RouteTemplates \X SeqsUpTo(RouteParameterLists, MaxVerbs)}

\* --- documents whose definitions refer to themselves ---
CyclicDefinitions ==
    {<<Prop("A", ObjR(<<Prop("x", RefR("A"))>>))>>,
     <<Prop("A", ObjR(<<Prop("x", RefR("B"))>>)), Prop("B", ObjR(<<Prop("y", RefR("A"))>>))>>,
     <<Prop("A", ObjR(<<Prop("x", RefR("B"))>>)), Prop("B", ObjR(<<Prop("y", RefR("B"))>>))>>,
     <<Prop("A", ObjR(<<Prop("x", ScalarR("string"))>>)),
       Prop("B", ObjR(<<Prop("y", RefR("B"))>>))>>,
     <<Prop("A", ArrR(RefR("A")))>>,
     <<Prop("A", ObjR(<<Prop("x", ObjR(<<Prop("y", RefR("A"))>>))>>))>>,
     <<Prop("A", ObjR(<<Prop("x", ArrR(RefR("A")))>>))>>,
     <<Prop("A", ObjR(<<Prop("m", RefR("Missing")), Prop("x", RefR("A"))>>))>>}

CyclicPaths ==
    {<<Prop("/items", <<Prop("get", VerbR(f, <<>>, RespR("200", Some(r))))>>)>>
        : <<f, r>> \in {Some("item_get"), None}
                       \X {RefR("A"), RefR("B"), ObjR(<<Prop("b", RefR("B"))>>),
                           ArrR(RefR("A"))}}

CyclicDocs ==
    {[definitions |-> ds, paths |-> ps] : <<ds, ps>> \in CyclicDefinitions \X CyclicPaths}

\* --- documents with a structural violation ---
BrokenSchemas == {ScalarR("float"), NoKeys, ObjR(<<Prop("x", NoKeys)>>), ArrR(ScalarR("float"))}

BrokenParameterLists ==
    {<<>>,
     <<ParamR("itemId", Some("float"))>>,
     <<[ParamR("itemId", Some("integer")) EXCEPT !.in = "header"]>>}

BrokenDocs ==
    {[definitions |-> <<Prop("A", r)>>, paths |-> <<>>] : r \in BrokenSchemas}
    \cup {[definitions |-> <<>>,
           paths |-> <<Prop("/items",
                          <<Prop(m, VerbR(Some("item_get"), ps, RespR("200", None)))>>)>>]
            : <<m, ps>> \in {"get", "parameters"} \X BrokenParameterLists}

Docs == GraphDocs \cup PathDocs \cup RouteDocs \cup BrokenDocs \cup CyclicDocs

(***************************************************************************)
(* The run: main parses the document and calls render                      *)
(***************************************************************************)
Fail(e) ==
    /\ pc' = "failed"
    /\ failed_in' = pc
    /\ err' = e

\* __main__.main: spec = build_openapi_from_repr(JSONPointer(), spec_dict)
Parse ==
    /\ pc = "start"
    /\ IF ParseError(doc) # ""
       THEN Fail(ParseError(doc)) /\ UNCHANGED spec
       ELSE /\ spec' = build_openapi_from_repr(RootPointer, doc)
            /\ pc' = "parsed"
            /\ UNCHANGED <<err, failed_in>>
    /\ UNCHANGED set_vars
    /\ UNCHANGED <<doc, serializers, endpoints, individual_handlers, weights, emitted,
                   files, routes, call, result>>

\* render: schema_resolver = build_schema_resolver(spec);
\*         serializers = build_serializers(spec, schema_resolver)
BuildSerializers ==
    /\ pc = "parsed"
    /\ LET st == build_serializers(spec, build_schema_resolver(spec))
       IN  IF st.err # ""
           THEN Fail(st.err) /\ UNCHANGED serializers
           ELSE /\ serializers' = st.m
                /\ pc' = "built"
                /\ UNCHANGED <<err, failed_in>>
    /\ UNCHANGED set_vars
    /\ UNCHANGED <<doc, spec, endpoints, individual_handlers, weights, emitted,
                   files, routes, call, result>>

\* render: the loop over spec.paths that fills endpoints and individual_handlers
GroupVerbs ==
    /\ pc = "built"
    /\ LET g == GroupPaths([err |-> "", endpoints |-> <<>>, individual_handlers |-> <<>>],
                           build_schema_resolver(spec), serializers, spec.paths)
       IN  IF g.err # ""
           THEN Fail(g.err) /\ UNCHANGED <<endpoints, individual_handlers>>
           ELSE /\ endpoints' = g.endpoints
                /\ individual_handlers' = g.individual_handlers
                /\ pc' = "grouped"
                /\ UNCHANGED <<err, failed_in>>
    /\ UNCHANGED set_vars
    /\ UNCHANGED <<doc, spec, serializers, weights, emitted, files, routes, call, result>>

\* render: the serializers argument of the serializers.py template,
\*   [ser_descr for ser_descr, _ in sorted(eval_weights(serializers.values()), key=...)]
EmitSerializers ==
    /\ pc = "grouped"
    /\ weights' = eval_weights(serializers)
    /\ emitted' = LET ps == Sorted(eval_weights(serializers))
                  IN  [i \in 1..Len(ps) |-> ps[i].d]
    /\ pc' = "emitted"
    /\ UNCHANGED set_vars
    /\ UNCHANGED <<doc, err, failed_in, spec, serializers, endpoints, individual_handlers,
                   files, routes, call, result>>

\* the properties of a schema node, as a sequence (empty when it has none)
PropertiesOf(schema) == IF IsNone(schema.properties) THEN <<>> ELSE The(schema.properties)

\* the render of serializers.py.jinja2: every declared property of every emitted
\* descriptor of an object goes through the render_property filter, which resolves
\* it (schema_resolver.resolve_if_ref) and renders it.  "" when no filter raises
SerializersTemplate(rctx, resolver, descrs) ==
    FirstErr(Flatten(
        [i \in 1..Len(descrs) |->
            LET props == PropertiesOf(DictGet(rctx.serializers, descrs[i]).schema)
            IN  [j \in 1..Len(props) |->
                    LET p == props[j].v
                    IN  IF p.cls = "SchemaRef" /\ ~DictHas(resolver, p.ref)
                        THEN "UnresolvedRefError"
                        ELSE render_property(rctx,
                                IF p.cls = "SchemaRef" THEN DictGet(resolver, p.ref) ELSE p,
                                props[j].k)]]))

\* the Path of an Endpoint or standalone handler
PathOf(sp, template) ==
    sp.paths[CHOOSE i \in 1..Len(sp.paths) : sp.paths[i].path = template]

\* the render of urls.py.jinja2: one route entry for each Endpoint and each
\* standalone handler, its path through the render_as_django_url_pattern filter
UrlsTemplate(sp, eps, handlers) ==
    [i \in 1..Len(eps) |-> render_as_django_url_pattern(PathOf(sp, eps[i].path))]
    \o [i \in 1..Len(handlers) |->
            render_as_django_url_pattern(PathOf(sp, handlers[i].path))]

\* render: (outdir / "serializers.py").write_text(t.render(serializers=[...]))
WriteSerializers ==
    /\ pc = "emitted"
    /\ LET e == SerializersTemplate(
                   [serializers |-> serializers,
                    node_builder_registry |-> default_node_builder_registry],
                   build_schema_resolver(spec), emitted)
       IN  IF e # ""
           THEN Fail(e) /\ UNCHANGED files
           ELSE /\ files' = Append(files, "serializers.py")
                /\ pc' = "serializers_written"
                /\ UNCHANGED <<err, failed_in>>
    /\ UNCHANGED set_vars
    /\ UNCHANGED <<doc, spec, serializers, endpoints, individual_handlers, weights,
                   emitted, routes, call, result>>

\* render: (outdir / "views.py").write_text(t.render(endpoints=..., ...))
WriteViews ==
    /\ pc = "serializers_written"
    /\ files' = Append(files, "views.py")
    /\ pc' = "views_written"
    /\ UNCHANGED set_vars
    /\ UNCHANGED <<doc, err, failed_in, spec, serializers, endpoints, individual_handlers, weights,
                   emitted, routes, call, result>>

\* render: (outdir / "urls.py").write_text(t.render(endpoints=..., ...))
WriteUrls ==
    /\ pc = "views_written"
    /\ LET rs == UrlsTemplate(spec, endpoints, individual_handlers)
           e == FirstErr([i \in 1..Len(rs) |-> rs[i].err])
       IN  IF e # ""
           THEN Fail(e) /\ UNCHANGED <<files, routes>>
           ELSE /\ routes' = [i \in 1..Len(rs) |-> rs[i].v]
                /\ files' = Append(files, "urls.py")
                /\ pc' = "done"
                /\ UNCHANGED <<err, failed_in>>
    /\ UNCHANGED set_vars
    /\ UNCHANGED <<doc, spec, serializers, endpoints, individual_handlers, weights,
                   emitted, call, result>>

Next ==
    \/ Parse
    \/ BuildSerializers
    \/ GroupVerbs
    \/ EmitSerializers
    \/ WriteSerializers
    \/ WriteViews
    \/ WriteUrls

Init ==
    /\ doc \in Docs
    /\ pc = "start"
    /\ err = ""
    /\ failed_in = ""
    /\ spec = <<>>
    /\ serializers = <<>>
    /\ endpoints = <<>>
    /\ individual_handlers = <<>>
    /\ weights = <<>>
    /\ emitted = <<>>
    /\ files = <<>>
    /\ routes = <<>>
    /\ call = <<>>
    /\ result = <<>>
    /\ _items = <<>>
    /\ history = <<>>

Spec == Init /\ [][Next]_vars

(***************************************************************************)
(* The library functions called on their own                               *)
(***************************************************************************)
Call(fn, args) == [fn |-> fn, args |-> args]

\* --- build_property: the schemas, names and keyword arguments it is called with ---
FieldSchemaReprs ==
    {[ScalarR(t) EXCEPT !.format = f]
        : <<t, f>> \in {"number", "integer", "string", "boolean"} \X {None, Some("date")}}
    \cup {ObjR(<<Prop("x", ScalarR("integer"))>>), ArrR(RefR("A")), ArrR(ScalarR("string")),
          ArrR(RefR("Missing")), ArrR(ObjR(<<Prop("x", ScalarR("integer"))>>))}

\* a context whose serializers hold the descriptor of the object schema at /field
\* and of the definition A
FieldContext ==
    [serializers |->
        <<[k |-> <<"field">>,
           v |-> SerializerDescriptor(
                    build_schema_from_repr(<<"field">>, <<"field">>,
                        ObjR(<<Prop("x", ScalarR("integer"))>>), "Schema", ""),
                    "Field", None)],
          [k |-> <<"definitions", "A">>,
           v |-> SerializerDescriptor(
                    build_definition_from_repr(<<"definitions", "A">>, <<"definitions", "A">>,
                        "A", ObjR(<<Prop("x", ScalarR("integer"))>>)),
                    "A", None)]>>,
     node_builder_registry |-> default_node_builder_registry]

FieldNames == {<<"id", "id">>, <<"itemId", "item_id">>}

AuxArguments == {<<>>, <<Prop("required", Leaf("False"))>>}

FieldAddresses == {<<"field">>, <<"other">>}

BuildPropertyCalls ==
    {Call("build_property",
          [nbctx |-> FieldContext,
           schema |-> build_schema_from_repr(c[4], c[4], c[1], "Schema", ""),
           name |-> c[2][1], source |-> c[2][2], aux |-> c[3]])
        : c \in FieldSchemaReprs \X FieldNames \X AuxArguments \X FieldAddresses}

\* --- the constructors called on their own ---
ScalarBuilders ==
    {"build_decimal_field", "build_integer_field", "build_float_field",
     "build_char_field", "build_boolean_field"}

BuilderAux ==
    {<<>>, <<Prop("required", Leaf("False"))>>,
     <<Prop("required", Leaf("False")), Prop("allow_null", Leaf("True"))>>,
     <<Prop("allow_null", Leaf("True")), Prop("required", Leaf("False"))>>}

\* the schemas each constructor is registered for
BuilderSchemaReprs(fn) ==
    IF fn \in ScalarBuilders THEN {ScalarR("number"), ScalarR("string")}
    ELSE IF fn = "build_nested_serializer" THEN {ObjR(<<Prop("x", ScalarR("integer"))>>)}
    ELSE {ArrR(RefR("A")), ArrR(ScalarR("string")), ArrR(ScalarR("integer")),
          ArrR(RefR("S")), ArrR(ObjR(<<Prop("x", ScalarR("integer"))>>))}

\* the nested-object constructor is called at /field, where FieldContext holds a
\* descriptor; an array at /field is one whose descriptor holds its element
BuilderAddresses(fn) ==
    IF fn = "build_nested_serializer" THEN {<<"field">>} ELSE FieldAddresses

BuilderCalls ==
    UNION {{Call("NodeBuilderFunction",
                 [fn |-> fn, nbctx |-> FieldContext,
                  schema |-> build_schema_from_repr(c[4], c[4], c[1], "Schema", ""),
                  name |-> c[2][1], source |-> c[2][2], aux |-> c[3]])
              : c \in BuilderSchemaReprs(fn) \X FieldNames \X BuilderAux
                      \X BuilderAddresses(fn)}
            : fn \in ScalarBuilders \cup {"build_nested_serializer", "build_list_serializer"}}

\* --- DefaultNodeBuilderRegistry: the mappings it is constructed with ---
RegistryEntries ==
    <<[k |-> <<"string", None>>, v |-> "build_char_field"],
      [k |-> <<"string", Some("date")>>, v |-> "build_date_field"],
      [k |-> <<"number", None>>, v |-> "build_float_field"],
      [k |-> <<"number", Some("decimal")>>, v |-> "build_decimal_field"]>>

RECURSIVE Masked(_, _)
Masked(entries, mask) ==
    IF Len(entries) = 0 THEN <<>>
    ELSE (IF mask[1] THEN <<entries[1]>> ELSE <<>>)
         \o Masked(Tail(entries), Tail(mask))

RegistryMappings ==
    {Masked(RegistryEntries, mask) : mask \in [1..Len(RegistryEntries) -> BOOLEAN]}

RegistryCalls ==
    {Call("DefaultNodeBuilderRegistry", [mapping |-> m, type_ |-> t, format |-> f])
        : <<m, t, f>> \in RegistryMappings \X {"string", "number", "array"}
                          \X {None, Some("date"), Some("csv")}}

\* --- JSONPointer: the addresses rendered and the texts parsed ---
PointerSegments == {"a", "", "~", "/", "a/b", "~1", "m~0", "#"}

MaxSegments == 2

Addresses == UNION {[1..n -> PointerSegments] : n \in 0..MaxSegments}

PointerTexts ==
    {JSONPointer_str(a) : a \in Addresses}
    \cup {"", "#/definitions/A", "#", "definitions/A", "//a", "#/a~1b/~0"}

PointerCalls ==
    {Call("JSONPointer.__str__", [path |-> a]) : a \in Addresses}
    \cup {Call("JSONPointer.from_string", [v |-> t]) : t \in PointerTexts}

\* --- naming_conv: the identifiers tokenized ---
Identifiers ==
    {"XMLHTTPRequest", "XmlHttpRequest", "ABC", "itemId", "xmlHttpID", "listWidget",
     "JSONValue", "getHTTPSUrl", "AXML", "AID", "isAJSONValue", "widget", "A", ""}

Tokens == {"xml", "http", "request", "a", "b", "c", "a1b", "iD"}

MaxTokens == 3

TokenLists == UNION {[1..n -> Tokens] : n \in 0..MaxTokens}

NamingCalls ==
    {Call("tokenize_camel_case_identifier", [ident |-> i]) : i \in Identifiers}
    \cup {Call("render_as_camel_case", [tokens |-> [cap |-> c[1], tokens |-> c[2]]])
            : c \in BOOLEAN \X TokenLists}

\* --- the typed getters: mappings, property names, defaults and element classes ---
GetterValues ==
    {JStr("ab"), JStr(""), JBool(TRUE), JInt(1), JNull,
     JList(<<>>), JList(<<JStr("a"), JStr("b")>>), JList(<<JStr("a"), JInt(1)>>),
     JDict(<<>>), JDict(<<[k |-> "k", v |-> JStr("a")]>>)}

GetterMappings ==
    {<<>>, <<[k |-> "q", v |-> JStr("z")]>>}
    \cup {<<[k |-> "p", v |-> x]>> : x \in GetterValues}
    \cup {<<[k |-> "q", v |-> JBool(FALSE)], [k |-> "p", v |-> x]>> : x \in GetterValues}

GetterContexts == {RootPointer, <<"paths", "/items">>}

GetterDefaults ==
    [get_as_str |-> {None, Some(JNull), Some(JStr("object"))},
     get_as_bool |-> {None, Some(JNull), Some(JBool(TRUE))},
     get_as_array |-> {None, Some(JNull), Some(JList(<<>>))},
     get_as_object |-> {None, Some(JNull), Some(JDict(<<>>))}]

GetterClasses ==
    [get_as_str |-> {"str"}, get_as_bool |-> {"bool"},
     get_as_array |-> {"object", "str", "Mapping"},
     get_as_object |-> {"object", "str", "Sequence"}]

GetterCalls ==
    UNION {{Call(fn, [ctx |-> c[1], m |-> c[2], prop_name |-> "p", class_ |-> c[3],
                      default |-> c[4]])
              : c \in GetterContexts \X GetterMappings \X GetterClasses[fn]
                        \X GetterDefaults[fn]}
            : fn \in DOMAIN GetterDefaults}
    \cup {Call("get_as_array", [ctx |-> c[1], m |-> c[2], prop_name |-> "p", class_ |-> "str",
                                default |-> Some(JList(<<JStr("a")>>))])
            : c \in GetterContexts \X GetterMappings}

Calls ==
    BuildPropertyCalls \cup RegistryCalls \cup GetterCalls \cup PointerCalls \cup NamingCalls
    \cup BuilderCalls

\* build_property(nbctx, schema, name, source, aux)
CallBuildProperty ==
    /\ pc = "call"
    /\ call.fn = "build_property"
    /\ result' = build_property(call.args.nbctx, call.args.schema, call.args.name,
                                call.args.source, call.args.aux)
    /\ pc' = "returned"
    /\ UNCHANGED set_vars
    /\ UNCHANGED <<doc, err, failed_in, spec, serializers, endpoints, individual_handlers,
                   weights, emitted, files, routes, call>>

\* DefaultNodeBuilderRegistry(mapping)(type_, format)
CallRegistry ==
    /\ pc = "call"
    /\ call.fn = "DefaultNodeBuilderRegistry"
    /\ result' = DefaultNodeBuilderRegistry(call.args.mapping, call.args.type_,
                                            call.args.format)
    /\ pc' = "returned"
    /\ UNCHANGED set_vars
    /\ UNCHANGED <<doc, err, failed_in, spec, serializers, endpoints, individual_handlers,
                   weights, emitted, files, routes, call>>

\* get_as_str / get_as_bool / get_as_array / get_as_object (ctx, m, prop_name, ...)
CallGetter ==
    /\ pc = "call"
    /\ call.fn \in DOMAIN GetterDefaults
    /\ result' =
          LET a == call.args
          IN  CASE call.fn = "get_as_str" -> get_as_str(a.ctx, a.m, a.prop_name, a.default)
                [] call.fn = "get_as_bool" -> get_as_bool(a.ctx, a.m, a.prop_name, a.default)
                [] call.fn = "get_as_array" ->
                       get_as_array(a.ctx, a.m, a.prop_name, a.class_, a.default)
                [] call.fn = "get_as_object" ->
                       get_as_object(a.ctx, a.m, a.prop_name, a.class_, a.default)
    /\ pc' = "returned"
    /\ UNCHANGED set_vars
    /\ UNCHANGED <<doc, err, failed_in, spec, serializers, endpoints, individual_handlers,
                   weights, emitted, files, routes, call>>

\* str(JSONPointer(path))
CallPointerStr ==
    /\ pc = "call"
    /\ call.fn = "JSONPointer.__str__"
    /\ result' = JSONPointer_str(call.args.path)
    /\ pc' = "returned"
    /\ UNCHANGED set_vars
    /\ UNCHANGED <<doc, err, failed_in, spec, serializers, endpoints, individual_handlers,
                   weights, emitted, files, routes, call>>

\* JSONPointer.from_string(v).path
CallFromString ==
    /\ pc = "call"
    /\ call.fn = "JSONPointer.from_string"
    /\ result' = from_string(call.args.v)
    /\ pc' = "returned"
    /\ UNCHANGED set_vars
    /\ UNCHANGED <<doc, err, failed_in, spec, serializers, endpoints, individual_handlers,
                   weights, emitted, files, routes, call>>

\* tokenize_camel_case_identifier(ident)
CallTokenize ==
    /\ pc = "call"
    /\ call.fn = "tokenize_camel_case_identifier"
    /\ result' = tokenize_camel_case_identifier(call.args.ident)
    /\ pc' = "returned"
    /\ UNCHANGED set_vars
    /\ UNCHANGED <<doc, err, failed_in, spec, serializers, endpoints, individual_handlers,
                   weights, emitted, files, routes, call>>

\* render_as_camel_case(tokens)
CallRenderCamelCase ==
    /\ pc = "call"
    /\ call.fn = "render_as_camel_case"
    /\ result' = render_as_camel_case(call.args.tokens)
    /\ pc' = "returned"
    /\ UNCHANGED set_vars
    /\ UNCHANGED <<doc, err, failed_in, spec, serializers, endpoints, individual_handlers,
                   weights, emitted, files, routes, call>>

\* a NodeBuilderFunction (nbctx, schema, name, source, aux)
CallBuilder ==
    /\ pc = "call"
    /\ call.fn = "NodeBuilderFunction"
    /\ result' = NodeBuilderFunction(call.args.fn, call.args.nbctx, call.args.schema,
                                     call.args.name, call.args.source, call.args.aux)
    /\ pc' = "returned"
    /\ UNCHANGED set_vars
    /\ UNCHANGED <<doc, err, failed_in, spec, serializers, endpoints, individual_handlers,
                   weights, emitted, files, routes, call>>

LibraryNext ==
    \/ CallBuildProperty
    \/ CallRegistry
    \/ CallGetter
    \/ CallPointerStr
    \/ CallFromString
    \/ CallTokenize
    \/ CallRenderCamelCase
    \/ CallBuilder

LibraryInit ==
    /\ call \in Calls
    /\ pc = "call"
    /\ result = <<>>
    /\ doc = <<>>
    /\ err = ""
    /\ failed_in = ""
    /\ spec = <<>>
    /\ serializers = <<>>
    /\ endpoints = <<>>
    /\ individual_handlers = <<>>
    /\ weights = <<>>
    /\ emitted = <<>>
    /\ files = <<>>
    /\ routes = <<>>
    /\ _items = <<>>
    /\ history = <<>>

Library == LibraryInit /\ [][LibraryNext]_vars

(***************************************************************************)
(* utils.IdentitySet, an instance on its own                               *)
(*                                                                         *)
(* An object is [id, value]: id(item) and what the item compares equal by. *)
(***************************************************************************)
SetObjects ==
    {[id |-> 1, value |-> "a"], [id |-> 2, value |-> "a"], [id |-> 3, value |-> "b"]}

MaxCalls == 4

\* (variant: the mapping is keyed by the item, so equal items share an entry)
IdentitySet_add_ByValue(items, item) == DictPut(items, item.value, item)

\* IdentitySet.add: self._items[id(item)] = item
IdentitySet_add(items, item) == DictPut(items, item.id, item)

\* IdentitySet.discard: del self._items[id(item)], KeyError when the key is absent
IdentitySet_discard(items, item) ==
    IF DictHas(items, item.id) THEN [err |-> "", items |-> DictDel(items, item.id)]
    ELSE [err |-> "KeyError", items |-> items]

\* IdentitySet.__len__
IdentitySet_len(items) == Len(items)

\* IdentitySet.__init__: {id(item): item for item in items}
RECURSIVE IdentitySet_init(_)
IdentitySet_init(iterable) ==
    IF Len(iterable) = 0 THEN <<>>
    ELSE LET rest == IdentitySet_init(SubSeq(iterable, 1, Len(iterable) - 1))
         IN  IdentitySet_add(rest, iterable[Len(iterable)])

SetIterables == UNION {[1..n -> SetObjects] : n \in 0..2}

SetAdd ==
    /\ pc = "set"
    /\ Len(history) < MaxCalls
    /\ \E o \in SetObjects :
         /\ _items' = IdentitySet_add(_items, o)
         /\ history' = Append(history, [fn |-> "add", item |-> o])
    /\ UNCHANGED <<doc, pc, err, failed_in, spec, serializers, endpoints,
                   individual_handlers, weights, emitted, files, routes, call, result>>

SetDiscard ==
    /\ pc = "set"
    /\ Len(history) < MaxCalls
    /\ \E o \in SetObjects :
         LET r == IdentitySet_discard(_items, o)
         IN  IF r.err # ""
             THEN Fail(r.err) /\ UNCHANGED <<_items, history>>
             ELSE /\ _items' = r.items
                  /\ history' = Append(history, [fn |-> "discard", item |-> o])
                  /\ UNCHANGED <<pc, err, failed_in>>
    /\ UNCHANGED <<doc, spec, serializers, endpoints, individual_handlers, weights,
                   emitted, files, routes, call, result>>

SetNext ==
    \/ SetAdd
    \/ SetDiscard

\* t = IdentitySet(iterable)
SetInit ==
    /\ \E it \in SetIterables :
         /\ _items = IdentitySet_init(it)
         /\ history = [i \in 1..Len(it) |-> [fn |-> "add", item |-> it[i]]]
    /\ pc = "set"
    /\ err = ""
    /\ failed_in = ""
    /\ doc = <<>>
    /\ spec = <<>>
    /\ serializers = <<>>
    /\ endpoints = <<>>
    /\ individual_handlers = <<>>
    /\ weights = <<>>
    /\ emitted = <<>>
    /\ files = <<>>
    /\ routes = <<>>
    /\ call = <<>>
    /\ result = <<>>

Sets == SetInit /\ [][SetNext]_vars

(***************************************************************************)
(* Properties                                                              *)
(***************************************************************************)
Emitted == pc \in {"emitted", "serializers_written", "views_written", "done"}
Grouped == pc = "grouped" \/ Emitted
Built == pc = "built" \/ Grouped

Resolver == build_schema_resolver(spec)

\* property p of a descriptor's schema refers to the object definition at address a
RefersToObjectDefinition(p, a) ==
    /\ p.v.cls = "SchemaRef"
    /\ p.v.ref = a
    /\ DictHas(Resolver, a)
    /\ DictGet(Resolver, a).type_ = "object"

\* C1: after build_serializers the descriptor map holds at most one descriptor per
\* schema address; an object definition referenced from a property of a described
\* object has a descriptor, and that descriptor's owners contain the descriptor of
\* every such parent (so of both parents, when two refer to it); an owner that is
\* registered again is not added a second time.
C1_OneDescriptorManyOwners ==
    Built =>
        /\ \A i, j \in 1..Len(serializers) :
              serializers[i].k = serializers[j].k => i = j
        /\ \A i \in 1..Len(serializers) :
              LET d == serializers[i].v
                  ps == PropertiesOf(d.schema)
              IN  /\ \A n \in 1..Len(ps) :
                        ps[n].v.cls = "SchemaRef"
                        /\ RefersToObjectDefinition(ps[n], ps[n].v.ref)
                        => /\ DictHas(serializers, ps[n].v.ref)
                           /\ serializers[i].k
                                \in Range(DictGet(serializers, ps[n].v.ref).owners)
                  /\ Cardinality(Range(d.owners)) = Len(d.owners)
                  /\ \A o \in Range(d.owners) : DictHas(serializers, o)

\* C1 witness: a definition described once, referenced from properties of two
\* different described objects, one of which refers to it from two properties
C1_Witness ==
    /\ pc = "built"
    /\ \E c, i, j \in 1..Len(serializers) :
          LET a == serializers[c].k
              pi == PropertiesOf(serializers[i].v.schema)
              pj == PropertiesOf(serializers[j].v.schema)
          IN  /\ i # j
              /\ \E n1, n2 \in 1..Len(pi) :
                    /\ n1 # n2
                    /\ RefersToObjectDefinition(pi[n1], a)
                    /\ RefersToObjectDefinition(pi[n2], a)
              /\ \E n \in 1..Len(pj) : RefersToObjectDefinition(pj[n], a)
              /\ Len(serializers[c].v.owners) = 2

\* the schema nodes below (and including) a schema node
RECURSIVE SchemaNodes(_)
SchemaNodes(node) ==
    {node}
    \cup UNION {SchemaNodes(PropertiesOf(node)[n].v) : n \in 1..Len(PropertiesOf(node))}
    \cup (IF IsNone(node.items) THEN {} ELSE SchemaNodes(The(node.items)))

\* the verbs of the contract, each with its path
VerbsOf(sp) ==
    Flatten([i \in 1..Len(sp.paths) |->
                [j \in 1..Len(sp.paths[i].verbs) |->
                    [path |-> sp.paths[i], verb |-> sp.paths[i].verbs[j].v]]])

\* the response schemas (with what they contain) and the parameters of the contract
ResponseSchemaNodes(sp) ==
    UNION {IF IsNone(Responses(sp)[i].resp.schema) THEN {}
           ELSE SchemaNodes(The(Responses(sp)[i].resp.schema))
             : i \in 1..Len(Responses(sp))}

ParameterNodes(sp) ==
    UNION {Range(VerbsOf(sp)[i].verb.parameters) : i \in 1..Len(VerbsOf(sp))}

\* C2 (as claimed): two parsed nodes at different document positions never have
\* equal addresses; in particular the schemas of the responses of different verbs
\* of one path, and different parameters of one verb, have different addresses.
C2_PositionsHaveOwnAddresses ==
    pc = "parsed" =>
        /\ \A n1, n2 \in ResponseSchemaNodes(spec) : n1.pos # n2.pos => n1.ctx # n2.ctx
        /\ \A n1, n2 \in ParameterNodes(spec) : n1.pos # n2.pos => n1.ctx # n2.ctx

\* a 200 response of a flagged verb whose schema satisfies Test
SuccessSchemaExists(sp, Test(_)) ==
    \E i \in 1..Len(Responses(sp)) :
        LET r == Responses(sp)[i]
        IN  /\ ~IsNone(r.verb.function_name)
            /\ r.resp.status_code = "200"
            /\ ~IsNone(r.resp.schema)
            /\ Test(The(r.resp.schema))

\* the addresses a schema node of the contract refers to from a property or from
\* its element type
NestedRefs(sp) ==
    {n.ref : n \in {x \in UNION {SchemaNodes(sp.definitions[i].v)
                                    : i \in 1..Len(sp.definitions)}
                          \cup ResponseSchemaNodes(sp) :
                        x.cls = "SchemaRef" /\ Len(x.pos) > 2 /\ x.pos[1] = "definitions"}}

\* C3 (as claimed): pass 1 takes only the "200" response of a verb that carries a
\* function name: every address marked important is the target of such a response,
\* every pseudo-definition is the inline schema of such a response, and a definition
\* that no such response and no definition refers to ends with no descriptor.
C3_OnlySuccessResponsesContribute ==
    pc = "built" =>
        LET req == CollectRequired(spec)
        IN  /\ \A a \in req.important_schema_refs :
                  LET IsRefToA(s) == s.cls = "SchemaRef" /\ s.ref = a
                  IN  SuccessSchemaExists(spec, IsRefToA)
            /\ \A i \in 1..Len(req.pseudo_defs) :
                  LET IsThatSchema(s) == s.cls = "Schema" /\ s.ctx = req.pseudo_defs[i].k
                  IN  SuccessSchemaExists(spec, IsThatSchema)
            /\ \A i \in 1..Len(spec.definitions) :
                  LET a == spec.definitions[i].v.ctx
                      IsRefToA(s) == s.cls = "SchemaRef" /\ s.ref = a
                  IN  DictHas(serializers, a) =>
                        \/ SuccessSchemaExists(spec, IsRefToA)
                        \/ a \in NestedRefs(spec)

\* C4 (as claimed): the descriptor of an inline object schema reached as property p
\* of an object whose descriptor is named N is named N_p, and the descriptor of a
\* named definition carries the declared name.
C4_NestedNameIsOwnerAndProperty ==
    pc = "built" =>
        \A i \in 1..Len(serializers) :
            LET d == serializers[i].v
                ps == PropertiesOf(d.schema)
            IN  /\ \A n \in 1..Len(ps) :
                      ps[n].v.cls = "Schema" /\ ps[n].v.type_ = "object"
                      => /\ DictHas(serializers, ps[n].v.ctx)
                         /\ DictGet(serializers, ps[n].v.ctx).name
                              = d.name \o "_" \o ps[n].k
                /\ \A n \in 1..Len(spec.definitions) :
                      spec.definitions[n].v.ctx = serializers[i].k
                      => d.name = spec.definitions[n].k

\* the name the claim gives a pseudo-definition: the non-empty segments of the path
\* template, braces removed, joined by underscores
ClaimedPseudoName(path) ==
    LET cs == DropEmpty(StrSplit(path, "/"))
    IN  StrJoin("_", [i \in 1..Len(cs) |-> StripBraces(cs[i])])

\* C5 (as claimed): the pseudo-definition synthesized for an inline 200-response
\* schema is named by the path's segments joined by underscores, braces removed,
\* without a leading underscore: widgets_id for /widgets/{id}.
C5_PseudoNameFromPathSegments ==
    pc = "built" =>
        \A i \in 1..Len(Responses(spec)) :
            LET r == Responses(spec)[i]
            IN  /\ ~IsNone(r.verb.function_name)
                /\ r.resp.status_code = "200"
                /\ ~IsNone(r.resp.schema)
                /\ The(r.resp.schema).cls = "Schema"
                /\ The(r.resp.schema).type_ = "object"
                => /\ DictHas(serializers, The(r.resp.schema).ctx)
                   /\ DictGet(serializers, The(r.resp.schema).ctx).name
                        = ClaimedPseudoName(r.path.path)
                   /\ r.path.path = "/widgets/{id}"
                        => DictGet(serializers, The(r.resp.schema).ctx).name = "widgets_id"

\* the handlers render made for a verb: its entries in the Endpoints' verb lists and
\* in the standalone list
EndpointEntries(path, verb) ==
    {<<i, j>> \in (1..Len(endpoints)) \X (1..MaxVerbs + 1) :
        /\ j <= Len(endpoints[i].verbs)
        /\ endpoints[i].path = path.path
        /\ endpoints[i].verbs[j].verb = verb}

StandaloneEntries(path, verb) ==
    {i \in 1..Len(individual_handlers) :
        /\ individual_handlers[i].path = path.path
        /\ individual_handlers[i].verb_descr.verb = verb}

HandlerWirings(path, verb) ==
    {endpoints[e[1]].verbs[e[2]].serializer_descriptor : e \in EndpointEntries(path, verb)}
    \cup {individual_handlers[i].verb_descr.serializer_descriptor
            : i \in StandaloneEntries(path, verb)}

HasSuccessSchema(verb) ==
    /\ DictHas(verb.responses, "200")
    /\ ~IsNone(DictGet(verb.responses, "200").schema)

\* the address of the schema of the verb's 200 response, a reference resolved
SuccessSchemaAddress(verb) ==
    LET s == The(DictGet(verb.responses, "200").schema)
    IN  IF s.cls = "SchemaRef" THEN s.ref ELSE s.ctx

FlaggedVerbsOf(sp) == SelectSeq(VerbsOf(sp), LAMBDA pv : ~IsNone(pv.verb.function_name))

\* each flagged verb has a handler, wired to the descriptor at the address of its
\* 200 schema, or to none when it has no 200 response or that response no schema
WiredAsResolved ==
    \A i \in 1..Len(FlaggedVerbsOf(spec)) :
        LET pv == FlaggedVerbsOf(spec)[i]
        IN  HandlerWirings(pv.path, pv.verb) =
                {IF HasSuccessSchema(pv.verb)
                 THEN Some(SuccessSchemaAddress(pv.verb)) ELSE None}

\* C6 (as claimed): every flagged verb whose 200 response carries a schema, of any
\* kind, is wired to the descriptor at the resolved schema's address; render never
\* refuses such a verb.
C6_AnySuccessSchemaIsWired ==
    /\ Grouped => WiredAsResolved
    /\ ~(pc = "failed" /\ failed_in = "built" /\ err = "UnsupportedOpenAPISchema")

\* C6 (amended): render wires every flagged verb whose 200 schema resolves to an
\* address that has a descriptor to that descriptor, and a flagged verb without a
\* 200 response or without a schema to none, each with a handler; when the resolved
\* schema of a flagged verb has no descriptor, render fails with the
\* unsupported-schema error instead, and it fails so only then.
C6_WiredOrUnsupported ==
    /\ Grouped =>
          /\ WiredAsResolved
          /\ \A i \in 1..Len(FlaggedVerbsOf(spec)) :
                HasSuccessSchema(FlaggedVerbsOf(spec)[i].verb)
                => DictHas(serializers, SuccessSchemaAddress(FlaggedVerbsOf(spec)[i].verb))
    /\ pc = "failed" /\ failed_in = "built" /\ err = "UnsupportedOpenAPISchema" =>
          \E i \in 1..Len(FlaggedVerbsOf(spec)) :
              /\ HasSuccessSchema(FlaggedVerbsOf(spec)[i].verb)
              /\ ~DictHas(serializers, SuccessSchemaAddress(FlaggedVerbsOf(spec)[i].verb))

\* C6 witness: a run that wired one verb to a descriptor and gave a handler without
\* descriptor to a verb whose 200 response has no schema
C6_Witness ==
    /\ pc = "grouped"
    /\ \E i, j \in 1..Len(FlaggedVerbsOf(spec)) :
          /\ HasSuccessSchema(FlaggedVerbsOf(spec)[i].verb)
          /\ HandlerWirings(FlaggedVerbsOf(spec)[i].path, FlaggedVerbsOf(spec)[i].verb)
                # {None}
          /\ ~HasSuccessSchema(FlaggedVerbsOf(spec)[j].verb)
          /\ HandlerWirings(FlaggedVerbsOf(spec)[j].path, FlaggedVerbsOf(spec)[j].verb)
                = {None}

\* the weight eval_weights returned for the descriptor with key a
WeightAt(a) == (CHOOSE i \in 1..Len(weights) : weights[i].d = a)

RECURSIVE SumWeights(_)
SumWeights(owners) ==
    IF Len(owners) = 0 THEN 0
    ELSE weights[WeightAt(owners[1])].w + SumWeights(Tail(owners))

\* C7: eval_weights returns one pair per descriptor, in dict order, and the weight of
\* each descriptor is 1 plus the sum of the weights of its owners: 1 when it has
\* no owner.
C7_WeightIsOnePlusOwners ==
    pc = "emitted" =>
        /\ Len(weights) = Len(serializers)
        /\ \A i \in 1..Len(weights) :
              /\ weights[i].d = serializers[i].k
              /\ weights[i].w = 1 + SumWeights(serializers[i].v.owners)
              /\ Len(serializers[i].v.owners) = 0 => weights[i].w = 1

\* C7 witness: a descriptor with two owners, one of them created (and so visited)
\* after it, next to descriptors without owner
C7_Witness ==
    /\ pc = "emitted"
    /\ \E i, j \in 1..Len(serializers) :
          /\ i < j
          /\ Len(serializers[i].v.owners) = 2
          /\ serializers[j].k \in Range(serializers[i].v.owners)
          /\ weights[i].w > 3
          /\ Len(serializers[j].v.owners) = 0

\* C8: the list handed to the serializers template holds every descriptor once, by
\* non-increasing weight, and descriptors of equal weight in the order of their
\* creation (the order of the serializers dict).
C8_EmittedByWeightThenCreation ==
    pc = "emitted" =>
        /\ Len(emitted) = Len(serializers)
        /\ Range(emitted) = Range(DictKeys(serializers))
        /\ \A i, j \in 1..Len(emitted) :
              i < j =>
                 /\ weights[WeightAt(emitted[i])].w >= weights[WeightAt(emitted[j])].w
                 /\ weights[WeightAt(emitted[i])].w = weights[WeightAt(emitted[j])].w
                    => DictIndex(serializers, emitted[i]) < DictIndex(serializers, emitted[j])

\* C8 witness: two descriptors of equal weight emitted, after one of greater weight
\* that was created later than both
C8_Witness ==
    /\ pc = "emitted"
    /\ \E i, j, n \in 1..Len(emitted) :
          /\ n < i /\ i < j
          /\ weights[WeightAt(emitted[i])].w = weights[WeightAt(emitted[j])].w
          /\ weights[WeightAt(emitted[n])].w > weights[WeightAt(emitted[i])].w
          /\ DictIndex(serializers, emitted[n]) > DictIndex(serializers, emitted[j])

\* the prefixes of the flagged verbs of a path: the tokens of each function name
\* (split at underscores) without the last
PrefixesOf(path) ==
    {LET ts == StrSplit(The(FlaggedVerbs(path)[i].function_name), "_")
     IN  SubSeq(ts, 1, Len(ts) - 1) : i \in 1..Len(FlaggedVerbs(path))}

EndpointsOf(path) == {i \in 1..Len(endpoints) : endpoints[i].path = path.path}
StandalonesOf(path) ==
    {i \in 1..Len(individual_handlers) : individual_handlers[i].path = path.path}

\* C9: a path whose flagged verbs all reduce to one and the same prefix gets exactly
\* one Endpoint, which holds exactly the flagged verbs of the path, and no standalone
\* handler; any other path gets no Endpoint and exactly one standalone handler for
\* each of its flagged verbs.
C9_OneEndpointOrStandalone ==
    Grouped =>
        \A p \in 1..Len(spec.paths) :
            LET path == spec.paths[p]
                fl == FlaggedVerbs(path)
            IN  IF Cardinality(PrefixesOf(path)) = 1
                THEN /\ Cardinality(EndpointsOf(path)) = 1
                     /\ \A e \in EndpointsOf(path) :
                           [i \in 1..Len(endpoints[e].verbs) |-> endpoints[e].verbs[i].verb]
                              = fl
                     /\ StandalonesOf(path) = {}
                ELSE /\ EndpointsOf(path) = {}
                     /\ Cardinality(StandalonesOf(path)) = Len(fl)
                     /\ \A i \in 1..Len(fl) :
                           Cardinality(StandaloneEntries(path, fl[i])) = 1

\* C9 witness: a path with two flagged verbs grouped into one Endpoint
C9_Witness ==
    /\ pc = "grouped"
    /\ \E e \in 1..Len(endpoints) : Len(endpoints[e].verbs) = 2

\* the handler name derived from a function name
HandlerName(verb) ==
    render_as_camel_case(tokenize_snake_case_identifier(The(verb.function_name), TRUE))

\* the flagged verbs of the path are two, with these derived handler names
HasHandlerNames(path, n1, n2) ==
    /\ Len(FlaggedVerbs(path)) = 2
    /\ {HandlerName(FlaggedVerbs(path)[i]) : i \in 1..2} = {n1, n2}

GroupedAs(path, class_name) ==
    /\ Cardinality(EndpointsOf(path)) = 1
    /\ \A e \in EndpointsOf(path) :
          endpoints[e].class_name = class_name /\ Len(endpoints[e].verbs) = 2
    /\ StandalonesOf(path) = {}

BothStandalone(path) ==
    /\ EndpointsOf(path) = {}
    /\ Cardinality(StandalonesOf(path)) = 2

\* C10 (as claimed): a path whose two flagged verbs have the derived handler names
\* ListWidget and CreateWidget is grouped into one Endpoint named from the shared
\* token widget.
C10_ListAndCreateWidgetGrouped ==
    Grouped =>
        \A p \in 1..Len(spec.paths) :
            HasHandlerNames(spec.paths[p], "ListWidget", "CreateWidget")
            => GroupedAs(spec.paths[p], "WidgetView")

\* C10 (amended): the compared prefix is the name without its last token.  A path
\* whose two flagged verbs have the handler names WidgetList and WidgetCreate is
\* grouped into one Endpoint named WidgetView; with ListWidget and CreateWidget the
\* prefixes are list and create, and both verbs become standalone handlers.
C10_TrailingTokenExcluded ==
    Grouped =>
        \A p \in 1..Len(spec.paths) :
            /\ HasHandlerNames(spec.paths[p], "WidgetList", "WidgetCreate")
               => GroupedAs(spec.paths[p], "WidgetView")
            /\ HasHandlerNames(spec.paths[p], "ListWidget", "CreateWidget")
               => BothStandalone(spec.paths[p])

\* C10 witness: a grouped run over a path with the handlers ListWidget and CreateWidget
C10_Witness ==
    /\ pc = "grouped"
    /\ \E p \in 1..Len(spec.paths) :
          HasHandlerNames(spec.paths[p], "ListWidget", "CreateWidget")

\* the templates of the paths urls.py holds a route for, in order
RoutedPaths ==
    [i \in 1..Len(endpoints) |-> endpoints[i].path]
    \o [i \in 1..Len(individual_handlers) |-> individual_handlers[i].path]

\* the types the verbs of a path declare for the parameter called name
DeclaredTypes(path, name) ==
    {p.type_ : p \in {q \in UNION {Range(path.verbs[i].v.parameters)
                                     : i \in 1..Len(path.verbs)} : q.name = name}}

\* the non-empty segments of a path template
Segments(template) == DropEmpty(StrSplit(template, "/"))

IsPlaceholderSegment(c) == Len(c) >= 2 /\ Char(c, 1) = "{" /\ Char(c, Len(c)) = "}"

PlaceholderNames(template) ==
    {SubSeq(c, 2, Len(c) - 1) : c \in {d \in Range(Segments(template)) : IsPlaceholderSegment(d)}}

Converter(t) == IF t \in {"integer", "number"} THEN "int" ELSE "str"

\* the pattern of a path whose placeholders each have one declared type
ExpectedPattern(path) ==
    StrJoin("/",
        [i \in 1..Len(Segments(path.path)) |->
            LET c == Segments(path.path)[i]
                name == SubSeq(c, 2, Len(c) - 1)
            IN  IF IsPlaceholderSegment(c)
                THEN "<" \o Converter(CHOOSE t \in DeclaredTypes(path, name) : TRUE)
                     \o ":" \o name \o ">"
                ELSE c])

\* C11: a rendered route copies the literal segments of the template and turns each
\* placeholder into <int:name> when its parameter is declared integer or number and
\* <str:name> when it is declared string, so /items/{itemId} with an integer itemId
\* gives items/<int:itemId>; a run whose routes were rendered has no placeholder with
\* two declared types or with none, and a run that fails in route rendering fails
\* with the unsupported-schema error.
C11_RoutePatterns ==
    /\ pc = "done" =>
          /\ Len(routes) = Len(RoutedPaths)
          /\ \A i \in 1..Len(routes) :
                LET path == PathOf(spec, RoutedPaths[i])
                IN  /\ \A name \in PlaceholderNames(path.path) :
                          /\ Cardinality(DeclaredTypes(path, name)) = 1
                          /\ DeclaredTypes(path, name) \subseteq {"integer", "number", "string"}
                    /\ routes[i] = ExpectedPattern(path)
                    /\ (path.path = "/items/{itemId}"
                        /\ DeclaredTypes(path, "itemId") = {"integer"})
                       => routes[i] = "items/<int:itemId>"
    /\ pc = "failed" /\ failed_in = "views_written" =>
          /\ err = "UnsupportedOpenAPISchema"
          /\ \E i \in 1..Len(RoutedPaths) :
                LET path == PathOf(spec, RoutedPaths[i])
                IN  \/ \E name \in PlaceholderNames(path.path) :
                          \/ Cardinality(DeclaredTypes(path, name)) # 1
                          \/ DeclaredTypes(path, name) = {"boolean"}
                    \/ \E j \in 1..Len(path.verbs) :
                          \E p \in Range(path.verbs[j].v.parameters) :
                              Cardinality(DeclaredTypes(path, p.name)) > 1

\* C11 witness: the route of /items/{itemId} rendered for two verbs that both
\* declare itemId an integer
C11_Witness ==
    /\ pc = "done"
    /\ routes = <<"items/<int:itemId>">>
    /\ Len(spec.paths[1].verbs) = 2
    /\ \A j \in 1..2 : Len(spec.paths[1].verbs[j].v.parameters) = 1

\* C12: a run of render that ended with a fatal error has written none of the
\* output files serializers.py, views.py and urls.py.
C12_FailedRunWritesNoFile ==
    pc = "failed" /\ failed_in \notin {"start"} => files = <<>>

\* C13: when the constructor the registry selects for the kind and format of the
\* schema succeeds, build_property returns the fragment that constructor produced,
\* and never an absent value.
C13_BuildPropertyReturnsFragment ==
    (pc = "returned" /\ call.fn = "build_property" /\ result.err = "")
    => (result.node = result.built /\ ~IsNone(result.node))

\* the constructors a mapping registers under a key
Registered(mapping, type_, format) ==
    {mapping[i].v : i \in {j \in 1..Len(mapping) : mapping[j].k = <<type_, format>>}}

\* C14: the registry returns the constructor registered for (kind, format) when there
\* is one, else the one registered for (kind, no format): (string, "date") without a
\* date entry gives the string constructor; with neither entry it fails with the
\* unsupported-schema error, which carries the kind and the format.
C14_RegistryFallsBackToKind ==
    (pc = "returned" /\ call.fn = "DefaultNodeBuilderRegistry") =>
        LET a == call.args
            specific == Registered(a.mapping, a.type_, a.format)
            agnostic == Registered(a.mapping, a.type_, None)
        IN  /\ specific # {} => result.err = "" /\ {result.fn} = specific
            /\ (specific = {} /\ agnostic # {}) => result.err = "" /\ {result.fn} = agnostic
            /\ (specific = {} /\ agnostic = {}) =>
                  /\ result.err = "UnsupportedOpenAPISchema"
                  /\ result.args = <<a.type_, a.format>>
            /\ (a.type_ = "string" /\ a.format = Some("date")
                /\ specific = {} /\ agnostic = {"build_char_field"})
               => result.fn = "build_char_field"

\* C14 witness: (string, "date") asked of a registry that holds both the date-specific
\* and the format-agnostic string constructor
C14_Witness ==
    /\ pc = "returned"
    /\ call.fn = "DefaultNodeBuilderRegistry"
    /\ call.args.type_ = "string"
    /\ call.args.format = Some("date")
    /\ Registered(call.args.mapping, "string", None) # {}
    /\ result.fn = "build_date_field"

\* the document with `type: string` written into every parameter that omits its type
WithTypesWritten(d) ==
    [d EXCEPT !.paths =
        [i \in 1..Len(d.paths) |->
            [d.paths[i] EXCEPT !.v =
                [j \in 1..Len(d.paths[i].v) |->
                    [d.paths[i].v[j] EXCEPT !.v.parameters =
                        [n \in 1..Len(d.paths[i].v[j].v.parameters) |->
                            LET r == d.paths[i].v[j].v.parameters[n]
                            IN  IF IsNone(r.type) THEN [r EXCEPT !.type = Some("string")]
                                ELSE r]]]]]]

\* C15: a parameter object that omits `type` is built as a Parameter of type string,
\* and one that omits `required` as a required Parameter; a document parses when it
\* parses with the omitted types written out.
C15_ParameterDefaults ==
    /\ (pc = "failed" /\ failed_in = "start") => ParseError(WithTypesWritten(doc)) # ""
    /\ (pc \notin {"start", "call", "returned"} /\ ~(pc = "failed" /\ failed_in = "start")) =>
          \A i \in 1..Len(doc.paths) : \A j \in 1..Len(doc.paths[i].v) :
              \A n \in 1..Len(doc.paths[i].v[j].v.parameters) :
                  LET r == doc.paths[i].v[j].v.parameters[n]
                      built == spec.paths[i].verbs[j].v.parameters[n]
                  IN  /\ IsNone(r.type) => built.type_ = "string"
                      /\ IsNone(r.required) => built.required = TRUE

\* every parameter object of the document declares its type
TypesDeclared(d) ==
    \A i \in 1..Len(d.paths) : \A j \in 1..Len(d.paths[i].v) :
        \A n \in 1..Len(d.paths[i].v[j].v.parameters) :
            ~IsNone(d.paths[i].v[j].v.parameters[n].type)

\* C16: a failure of build_openapi_from_repr is reported as InvalidSchemaError and as
\* no other kind of error (stated for the documents whose parameters all declare a
\* type: an unknown type value, an unknown placement, a key under a path that is no
\* HTTP method, a schema without kind).
C16_ParserRaisesOnlySchemaErrors ==
    (pc = "failed" /\ failed_in = "start" /\ TypesDeclared(doc))
    => err = "InvalidSchemaError"

\* the Python type a getter expects of the property
ExpectedType ==
    [get_as_str |-> "str", get_as_bool |-> "bool", get_as_array |-> "list",
     get_as_object |-> "dict"]

GetterReturned == pc = "returned" /\ call.fn \in DOMAIN GetterDefaults

\* C17: a getter called without a default raises a schema error at the parent address
\* extended by the property name when the property is absent or holds a value of another
\* type (a null value left aside); called with a default and the property absent, it
\* returns the default without error.
C17_TypedGetters ==
    GetterReturned =>
        LET a == call.args
            present == DictHas(a.m, a.prop_name)
            mismatched == /\ present
                          /\ DictGet(a.m, a.prop_name).t
                                \notin {ExpectedType[call.fn], "NoneType"}
        IN  /\ (IsNone(a.default) /\ (~present \/ mismatched))
                => (result.err = "InvalidSchemaError" /\ result.ctx = Sub(a.ctx, a.prop_name))
            /\ (~IsNone(a.default) /\ ~present)
                => (result.err = "" /\ result.v = The(a.default))

\* C18: rendering an address, parsing the text and rendering again gives the text of
\* the first rendering, for every address, empty segments and segments holding "~" or
\* "/" included.
C18_PointerRoundTrip ==
    (pc = "returned" /\ call.fn = "JSONPointer.__str__")
    => JSONPointer_str(from_string(result)) = result

\* the identifier begins with a capital letter (an acronym begins with one)
BeginsWithCapital(ident) ==
    Len(ident) > 0 /\ LetterIndex(UpperLetters, Char(ident, 1)) > 0

\* C19: tokenize_camel_case_identifier splits the identifier into lower-cased tokens
\* (the tokens, in order, make up the lower-cased identifier, and none is empty), gives
\* [xml, http, request] for XMLHTTPRequest and for XmlHttpRequest and [a, b, c] for ABC,
\* and returns the flag False for an identifier that begins with a capital letter.
C19_TokenizeCamelCase ==
    (pc = "returned" /\ call.fn = "tokenize_camel_case_identifier")
    => /\ StrConcat(result.tokens) = StrLower(call.args.ident)
       /\ \A i \in 1..Len(result.tokens) :
            result.tokens[i] # "" /\ result.tokens[i] = StrLower(result.tokens[i])
       /\ call.args.ident \in {"XMLHTTPRequest", "XmlHttpRequest"}
            => result.tokens = <<"xml", "http", "request">>
       /\ call.args.ident = "ABC" => result.tokens = <<"a", "b", "c">>
       /\ BeginsWithCapital(call.args.ident) => ~result.cap

CamelRendered == pc = "returned" /\ call.fn = "render_as_camel_case"

\* where the i-th token starts in the concatenation of the tokens (0-based)
TokenOffset(tokens, i) == Len(StrConcat(SubSeq(tokens, 1, i - 1)))

\* the tokens whose letters the rendering re-cases: all but the first, and the first
\* when the flag is true
Recased(t, i) == i # 1 \/ t.cap

\* the result has the characters of the tokens in order, case aside
SpellsTokens(t, r) ==
    /\ Len(r) = Len(StrConcat(t.tokens))
    /\ \A i \in 1..Len(t.tokens) : \A j \in 1..Len(t.tokens[i]) :
         ToLower(Char(r, TokenOffset(t.tokens, i) + j)) = ToLower(Char(t.tokens[i], j))

\* C20 (as amended): render_as_camel_case concatenates the tokens in order; in every
\* token after the first, and in the first exactly when the flag is true, a letter that
\* starts the token or follows a non-letter is upper-cased and every other letter is
\* lower-cased, and the first token is left as it is when the flag is false.
\* (False, [xml, http, request]) gives xmlHttpRequest, (True, [xml, http, request])
\* gives XmlHttpRequest and (False, [a, b, c]) gives aBC.
C20_RenderCamelCase ==
    CamelRendered =>
        LET t == call.args.tokens
        IN  /\ SpellsTokens(t, result)
            /\ \A i \in 1..Len(t.tokens) : \A j \in 1..Len(t.tokens[i]) :
                 LET c == Char(t.tokens[i], j)
                     r == Char(result, TokenOffset(t.tokens, i) + j)
                 IN  IF ~Recased(t, i) THEN r = c
                     ELSE IF j = 1 \/ ~IsLetter(Char(t.tokens[i], j - 1)) THEN r = ToUpper(c)
                     ELSE r = ToLower(c)
            /\ t = [cap |-> FALSE, tokens |-> <<"xml", "http", "request">>]
                 => result = "xmlHttpRequest"
            /\ t = [cap |-> TRUE, tokens |-> <<"xml", "http", "request">>]
                 => result = "XmlHttpRequest"
            /\ t = [cap |-> FALSE, tokens |-> <<"a", "b", "c">>] => result = "aBC"

\* a rendering of three tokens, flag false, whose later tokens are re-cased
C20_Witness ==
    /\ CamelRendered
    /\ call.args.tokens = [cap |-> FALSE, tokens |-> <<"xml", "a1b", "iD">>]
    /\ result = "xmlA1BId"

\* C20 (as stated): the rendering capitalises the first letter of every token after the
\* first, and of the first token exactly when the flag is true, and changes nothing else.
C20_CapitalisesFirstLetterOnly ==
    CamelRendered =>
        LET t == call.args.tokens
        IN  /\ Len(result) = Len(StrConcat(t.tokens))
            /\ \A i \in 1..Len(t.tokens) : \A j \in 1..Len(t.tokens[i]) :
                 Char(result, TokenOffset(t.tokens, i) + j)
                    = IF Recased(t, i) /\ j = 1 THEN ToUpper(Char(t.tokens[i], j))
                      ELSE Char(t.tokens[i], j)

\* the objects added by the calls of h and not discarded afterwards
RECURSIVE LiveObjects(_)
LiveObjects(h) ==
    IF Len(h) = 0 THEN {}
    ELSE LET before == LiveObjects(SubSeq(h, 1, Len(h) - 1))
             last == h[Len(h)]
         IN  IF last.fn = "add" THEN before \cup {last.item} ELSE before \ {last.item}

\* C21: the length of an IdentitySet is the number of distinct objects that were added
\* and not afterwards discarded.
C21_LengthCountsLiveObjects ==
    pc \in {"set", "failed"} => IdentitySet_len(_items) = Cardinality(LiveObjects(history))

\* one object added twice, an equal but distinct object added, a member discarded
C21_Witness ==
    /\ pc = "set"
    /\ history = <<[fn |-> "add", item |-> [id |-> 1, value |-> "a"]],
                   [fn |-> "add", item |-> [id |-> 1, value |-> "a"]],
                   [fn |-> "add", item |-> [id |-> 2, value |-> "a"]],
                   [fn |-> "discard", item |-> [id |-> 1, value |-> "a"]]>>
    /\ IdentitySet_len(_items) = 1

\* the owners of the descriptor keyed by key
OwnersOf(key) == Range(DictGet(serializers, key).owners)

\* C22: in the emitted order every descriptor stands strictly before each of its owners.
C22_NestedBeforeOwners ==
    Emitted =>
        \A i, j \in 1..Len(emitted) : emitted[j] \in OwnersOf(emitted[i]) => i < j

\* a chain of three emitted: a descriptor, its owner and the owner of that owner
C22_Witness ==
    /\ Emitted
    /\ \E i, j, n \in 1..Len(emitted) :
          /\ emitted[j] \in OwnersOf(emitted[i])
          /\ emitted[n] \in OwnersOf(emitted[j])
          /\ DictIndex(serializers, emitted[n]) < DictIndex(serializers, emitted[i])

\* the addresses a schema refers to through its properties and its array elements,
\* inline schemas on the way included
RECURSIVE RefsIn(_)
RefsIn(schema) ==
    IF schema.cls = "SchemaRef" THEN {schema.ref}
    ELSE IF schema.type_ = "object" /\ ~IsNone(schema.properties)
    THEN UNION {RefsIn(The(schema.properties)[i].v) : i \in 1..Len(The(schema.properties))}
    ELSE IF schema.type_ = "array" /\ ~IsNone(schema.items) THEN RefsIn(The(schema.items))
    ELSE {}

DefinitionAt(ref) ==
    spec.definitions[CHOOSE i \in 1..Len(spec.definitions) : spec.definitions[i].v.ctx = ref].v

DefinitionAddresses == {spec.definitions[i].v.ctx : i \in 1..Len(spec.definitions)}

\* the addresses reached from the addresses of refs in at most n steps
RECURSIVE ReachedFrom(_, _)
ReachedFrom(refs, n) ==
    IF n = 0 THEN refs
    ELSE ReachedFrom(
            refs \cup UNION {RefsIn(DefinitionAt(r)) : r \in refs \cap DefinitionAddresses},
            n - 1)

\* the definition at ref reaches itself through properties or array elements
ReachesItself(ref) ==
    ref \in ReachedFrom(RefsIn(DefinitionAt(ref)), Len(spec.definitions))

\* the schemas of the responses of the flagged verbs
FlaggedResponseSchemas ==
    {The(r.resp.schema) :
        r \in {q \in Range(Responses(spec)) :
                  ~IsNone(q.verb.function_name) /\ ~IsNone(q.resp.schema)}}

\* the important definitions: those a response of a flagged verb refers to
ImportantDefinitions ==
    {s.ref : s \in {q \in FlaggedResponseSchemas : q.cls = "SchemaRef"}}
        \cap DefinitionAddresses

\* the definitions the qualification walk can come to: the important ones, those the
\* inline object schema of a flagged verb's response refers to, and all they reach
WalkedDefinitions ==
    ReachedFrom(
        ImportantDefinitions
        \cup UNION {RefsIn(s) : s \in {q \in FlaggedResponseSchemas :
                                          q.cls # "SchemaRef" /\ q.type_ = "object"}},
        Len(spec.definitions)) \cap DefinitionAddresses

AfterBuildSerializers == Built \/ (pc = "failed" /\ failed_in = "parsed")

C24_DescriptorNamesDistinct ==
    Built =>
        \A i, j \in 1..Len(serializers) :
            i # j => serializers[i].v.name # serializers[j].v.name

\* the descriptor's schema is an object, or an array that is a (pseudo-)definition
DescribableSchema(schema) ==
    \/ schema.type_ = "object"
    \/ schema.type_ = "array" /\ schema.cls = "Definition"

\* the inline properties of a described object that are scalars or arrays
UndescribedProperties(d) ==
    {ps \in Range(PropertiesOf(d.schema)) :
        ps.v.cls = "Schema" /\ ps.v.type_ # "object"}

\* C25: every entry of the descriptor map is keyed by the address of its descriptor's
\* schema; that schema is an object, or an array that is a definition or
\* pseudo-definition; no scalar and no inline array that is a property of a described
\* object is a descriptor; every owner of a descriptor is a descriptor of the map.
C25_DescriptorsAreObjectsOrArrayDefinitions ==
    Built =>
        \A i \in 1..Len(serializers) :
            LET d == serializers[i].v
            IN  /\ serializers[i].k = d.schema.ctx
                /\ DescribableSchema(d.schema)
                /\ \A ps \in UndescribedProperties(d) : ~DictHas(serializers, ps.v.ctx)
                /\ \A o \in Range(d.owners) : DictHas(serializers, o)

\* a described object with an inline array property whose element is described and
\* owned by that object, and with a scalar property beside it or in the element
C25_Witness ==
    /\ Built
    /\ \E i, j \in 1..Len(serializers) :
          /\ \E ps \in UndescribedProperties(serializers[i].v) :
                /\ ps.v.type_ = "array"
                /\ The(ps.v.items).cls = "SchemaRef"
                /\ The(ps.v.items).ref = serializers[j].k
          /\ serializers[i].k \in Range(serializers[j].v.owners)
          /\ \E ps \in UndescribedProperties(serializers[j].v) : ps.v.type_ = "integer"

BuilderReturned == pc = "returned" /\ call.fn = "NodeBuilderFunction"

\* the names of the keyword arguments of a call, in order
KwargNames(node) == [i \in 1..Len(node.kwargs) |-> node.kwargs[i].name]

\* the keyword arguments a constructor declares of its own, in declaration order
FixedKwargs(fn) ==
    CASE fn = "build_decimal_field" -> <<"max_digits", "decimal_places">>
      [] fn = "build_list_serializer" -> <<"child">>
      [] OTHER -> <<>>

\* the element the list constructor finds for the array, when it finds one
ListElement == ElemSchema(call.args.nbctx, call.args.schema)
ObjectElement == ListElement.err = "" /\ ListElement.v.type_ = "object"
ScalarElement == ListElement.err = "" /\ ListElement.v.type_ # "object"

\* C26: a scalar constructor, the nested-object constructor and the list constructor
\* (on an array whose element is not an object) emit a call whose keyword arguments
\* are source (exactly when the name differs from the source), then the constructor's
\* own arguments, then the aux arguments in the order received.
C26_KeywordOrder ==
    (/\ BuilderReturned
     /\ call.args.fn = "build_list_serializer" => ScalarElement)
    => LET a == call.args
       IN  /\ result.err = ""
           /\ ~IsNone(result.node)
           /\ KwargNames(The(result.node))
                = (IF a.name # a.source THEN <<"source">> ELSE <<>>)
                  \o FixedKwargs(a.fn) \o DictKeys(a.aux)
           /\ \A i \in 1..Len(a.aux) :
                The(result.node).kwargs[Len(The(result.node).kwargs) - Len(a.aux) + i].value
                    = Some(a.aux[i].v)

ListReturned == BuilderReturned /\ call.args.fn = "build_list_serializer"

\* the nested-binding field of a descriptor
NestedBinding(ser_descr, name, source, aux) ==
    build_python_function_call(<<serializer_class_name(ser_descr)>>,
                               SourceKwarg(name, source) \o AuxItems(aux))

\* C27: on an array whose element is an object with a descriptor the list constructor
\* returns the nested-binding field of that descriptor with many = True added to aux;
\* on any other element, a reference to a scalar-kind definition included, it returns
\* the generic list field fields.ListField with a child fragment.
C27_ListSerializer ==
    ListReturned
    => LET a == call.args
           ss == a.nbctx.serializers
       IN  IF ObjectElement
           THEN DictHas(ss, ListElement.v.ctx)
                => result = Returned(NestedBinding(DictGet(ss, ListElement.v.ctx),
                                        a.name, a.source,
                                        DictPut(a.aux, "many", Leaf("True"))))
           ELSE /\ result.err = ""
                /\ ~IsNone(result.node)
                /\ The(result.node).callee = <<"fields", "ListField">>
                /\ \E i \in 1..Len(The(result.node).kwargs) :
                      /\ The(result.node).kwargs[i].name = "child"
                      /\ ~IsNone(The(result.node).kwargs[i].value)

\* the verbs of the contract, each with the template of its path
ContractVerbs ==
    {[path |-> spec.paths[p].path, verb |-> spec.paths[p].verbs[i].v]
        : <<p, i>> \in {<<p, i>> \in (1..Len(spec.paths)) \X (1..MaxVerbs) :
                            i <= Len(spec.paths[p].verbs)}}

\* the places a verb of a path takes in the Endpoint verb lists and in the list of
\* standalone handlers
EndpointPlaces(pv) ==
    {<<e, i>> \in (1..Len(endpoints)) \X (1..MaxVerbs) :
        /\ i <= Len(endpoints[e].verbs)
        /\ endpoints[e].path = pv.path
        /\ endpoints[e].verbs[i].verb = pv.verb}
StandalonePlaces(pv) ==
    {h \in 1..Len(individual_handlers) :
        /\ individual_handlers[h].path = pv.path
        /\ individual_handlers[h].verb_descr.verb = pv.verb}
Places(pv) == Cardinality(EndpointPlaces(pv)) + Cardinality(StandalonePlaces(pv))

\* the places of both lists, counted
AllPlaces ==
    Len(individual_handlers)
    + Cardinality({<<e, i>> \in (1..Len(endpoints)) \X (1..MaxVerbs) :
                      i <= Len(endpoints[e].verbs)})

HasFlagged(path) ==
    \E i \in 1..Len(path.verbs) : ~IsNone(path.verbs[i].v.function_name)

\* C28: after grouping every flagged verb of the contract takes exactly one place
\* across the Endpoint verb lists and the standalone list, an unflagged verb takes
\* none, the lists hold nothing else, and a path without a flagged verb has neither
\* an Endpoint nor a standalone handler.
C28_FlaggedVerbsPlacedOnce ==
    Grouped =>
        /\ \A pv \in ContractVerbs :
              Places(pv) = IF IsNone(pv.verb.function_name) THEN 0 ELSE 1
        /\ AllPlaces = Cardinality({pv \in ContractVerbs : ~IsNone(pv.verb.function_name)})
        /\ \A p \in 1..Len(spec.paths) :
              ~HasFlagged(spec.paths[p])
              => EndpointsOf(spec.paths[p]) = {} /\ StandalonesOf(spec.paths[p]) = {}

\* C28 witness: grouping completed on a contract with a flagged and an unflagged
\* verb, one of its paths holding verbs none of which is flagged
C28_Witness ==
    /\ pc = "grouped"
    /\ \E pv \in ContractVerbs : ~IsNone(pv.verb.function_name)
    /\ \E p \in 1..Len(spec.paths) :
          Len(spec.paths[p].verbs) > 0 /\ ~HasFlagged(spec.paths[p])

\* the path without the parameters whose names are not placeholders of its template
OnlyPlaceholderParameters(path) ==
    [path EXCEPT !.verbs =
        [i \in 1..Len(path.verbs) |->
            [k |-> path.verbs[i].k,
             v |-> [path.verbs[i].v EXCEPT !.parameters =
                      SelectSeq(path.verbs[i].v.parameters,
                                LAMBDA q : q.name \in PlaceholderNames(path.path))]]]]

\* the routes of the Endpoints and standalone handlers, rendered from their paths
\* without the parameters that are not placeholders
PlaceholderRoutes ==
    [i \in 1..Len(endpoints) |->
        render_as_django_url_pattern(
            OnlyPlaceholderParameters(PathOf(spec, endpoints[i].path)))]
    \o [i \in 1..Len(individual_handlers) |->
            render_as_django_url_pattern(
                OnlyPlaceholderParameters(PathOf(spec, individual_handlers[i].path)))]

RoutesRendered == pc = "done" \/ (pc = "failed" /\ failed_in = "views_written")

\* C29: the outcome of rendering the routes is the outcome of rendering them from the
\* same templates with only the parameters that are placeholders: the same patterns,
\* or a failure in both.
C29_OnlyPlaceholderParametersCount ==
    RoutesRendered
    => LET e == FirstErr([i \in 1..Len(PlaceholderRoutes) |-> PlaceholderRoutes[i].err])
       IN  IF pc = "done"
           THEN e = "" /\ routes = [i \in 1..Len(PlaceholderRoutes) |-> PlaceholderRoutes[i].v]
           ELSE err = e

Tokenized == pc = "returned" /\ call.fn = "tokenize_camel_case_identifier"

\* C30: the tokens of tokenize_camel_case_identifier, concatenated in order, spell the
\* lower-cased identifier character by character: none is lost, duplicated or moved,
\* also when one capital letter comes right before an acronym (AXML, AID).
C30_TokensSpellIdentifier ==
    Tokenized
    => LET joined == StrConcat(result.tokens)
           ident == call.args.ident
       IN  /\ Len(joined) = Len(ident)
           /\ \A i \in 1..Len(ident) : Char(joined, i) = ToLower(Char(ident, i))

====
